---- MODULE Spec2Model ----
(***************************************************************************)
(* Model of the Electron main process of visualise-tool                    *)
(* (electron/main.js): the preview / dev-server orchestrator and the       *)
(* multi-file response parser of execute-build.                            *)
(*                                                                         *)
(* The main process is a single-threaded event loop: the code between two  *)
(* awaits on real I/O runs atomically, and one action below is one such    *)
(* run.  Requests (IPC invocations) interleave only at those awaits.       *)
(***************************************************************************)
EXTENDS Integers, Sequences, FiniteSets, TLC

\* ------------------------------------------------------------------ bounds
MaxReq == 2        \* start-preview / stop-preview requests issued in one run
MaxProc == 2       \* dev processes spawned in one run
ProbeRange == 1    \* leading entries of COMMON_DEV_PORTS a server may listen on
MaxTerm == 2       \* terminal sessions created
MaxData == 1       \* data chunks a pty emits, and writes it is sent
MaxContent == 2    \* content lines of one file of a composed response

\* ------------------------------------------------------- program constants
BUILD_DIR_CANDIDATES == <<"dist", "build", "public">>
COMMON_DEV_PORTS == <<3000, 5173, 4173, 8080, 8000, 4200>>
PREVIEW_PORTS == <<3000, 3001, 3002, 3003, 3004, 3005, 3006, 3007, 3008, 3009,
                   4000, 5000, 8000, 8080, 9000>>
isDev == FALSE     \* NODE_ENV # 'development': the packaged application

Folders == {"projA", "projB"}
StaticFiles == {"dist/index.html", "build/index.html", "public/index.html", "index.html"}
ScriptSets == SUBSET {"dev", "start"}
\* A folder layout: the index files present, whether package.json exists and
\* parses, and the scripts it declares.
Layouts == [files : SUBSET StaticFiles, pkg : BOOLEAN, scripts : ScriptSets]
DevOnly == [files |-> {}, pkg |-> TRUE, scripts |-> {"dev"}]
\* The layouts the interleaving specification starts from: one per strategy.
CoreLayouts ==
  { [files |-> {"dist/index.html", "index.html"}, pkg |-> TRUE, scripts |-> {"dev"}],
    [files |-> {"index.html"}, pkg |-> FALSE, scripts |-> {}],
    [files |-> {}, pkg |-> TRUE, scripts |-> {"dev", "start"}],
    [files |-> {}, pkg |-> FALSE, scripts |-> {}] }

NULL == 0          \* JavaScript null for handles (ids start at 1)
EXT == -1          \* owner of a port held by a server this tool did not start
NullInfo == [cwd |-> "", script |-> "", startedByApp |-> FALSE]
NoTarget == [root |-> "", indexPath |-> "", source |-> "none"]

VARIABLES
  fs,              \* folder -> layout on disk
  previewServer,   \* main.js:77  listener id or NULL
  previewPort,     \* main.js:78  port or NULL
  devProcess,      \* main.js:81  process id or NULL
  devProcessInfo,  \* main.js:82  {cwd, script, startedByApp} or NullInfo
  servers,         \* every http.Server created by app.listen: port, root, indexPath, state
  procs,           \* every child spawned by spawnDevProcess: cwd, script, state
  portOwner,       \* probed dev port -> NULL | EXT | process id listening on it
  extKilled,       \* TRUE once a kill was aimed at a server this tool did not start
  reqs,            \* the IPC invocations issued so far, with their position (pc)
  lastResult,      \* the response most recently returned to the renderer
  plan,            \* how the generation response at hand was composed (its files)
  lines,           \* execute-build: response.split('\n'), a line being its tokens
  idx,             \* execute-build: the loop variable i (1-based)
  currentFile,     \* execute-build: path of the open file, <<>> for null
  currentContent,  \* execute-build: lines collected for the open file
  parsed,          \* the (path, content) pairs handed to saveParsedFile, in order
  ppc,             \* execute-build: "idle" | "loop" | "done" | "returned"
  outDir,          \* execute-build: projectStructure.suggestedOutputDir
  unwritable,      \* the full paths at which mkdir or writeFile fail
  noDir,           \* those of them at which mkdir already fails
  madeDirs,        \* the directories a mkdir of saveParsedFile went through for
  createdFiles,    \* execute-build: createdFiles, the full paths in push order
  disk,            \* the files written so far: {[path, content]}
  buildResult,     \* what execute-build returned
  givenPath,       \* saveParsedFile: its relativePath argument
  resolvedPath,    \* saveParsedFile: its fullPath, <<>> before it is computed
  fpc,             \* fetchWithRetry: "idle" | "call" | "delay" | "returned" | "thrown"
  retries,         \* fetchWithRetry: retries left
  backoff,         \* fetchWithRetry: the next wait in ms
  outcomes,        \* what each fetch() so far gave: an HTTP status or NETERR
  waits,           \* the delay(backoff) calls so far, in ms
  genResult,       \* what execute-build made of the generation call
  terminals,       \* main.js:23  id -> pty of its entry, NULL when the map has no entry
  nextTerminalId,  \* main.js:24
  ptys,            \* every pty spawned: id of its closures, state, killed, input
  notes,           \* id -> the terminal-data / terminal-exit messages sent for it
  lastOp,          \* the terminal handler or callback that ran last, and its effect
  uncaught,        \* TRUE once an 'error' event found no listener in the main process
  wpc,             \* the wait: "idle" | "check" | "pass" | "delay", and its result:
                   \* "found" (a url) | "timedOut" (null of the wait) | "none" (null of a pass)
  now,             \* Date.now(), ms since the wait began
  deadline,        \* waitForDevServer: deadline
  intervalMs,      \* waitForDevServer: intervalMs
  portIdx,         \* findRunningDevServer: position in COMMON_DEV_PORTS
  probe,           \* pingPort: its promise, and what settled it
  portKind,        \* what a GET to the i-th common port meets
  isOpen,          \* TerminalPane: the isOpen prop of the last render
  paneCwd,         \* TerminalPane: the cwd prop of the last render
  terminalIdRef,   \* TerminalPane: terminalIdRef.current
  ipc,             \* renderer -> main: the terminal invocations not yet handled
  replies,         \* main -> renderer: the terminal-create responses not yet delivered
  started,         \* TerminalPane: the startTerminal() calls made so far
  refCall,         \* which of these calls terminalIdRef.current came from
  versions,        \* useVersionHistory: versions, each by its id
  currentIndex,    \* useVersionHistory: currentIndex
  pending,         \* the currentIndex an addVersion waiting behind an await closed over
  made,            \* the versions made so far
  lastCall         \* the last call applied to the history

pvars == <<fs, previewServer, previewPort, devProcess, devProcessInfo, servers,
           procs, portOwner, extKilled, reqs, lastResult>>

bvars == <<plan, lines, idx, currentFile, currentContent, parsed, ppc,
           outDir, unwritable, noDir, madeDirs, createdFiles, disk, buildResult>>

rvars == <<givenPath, resolvedPath>>

\* The variables of the parts added after the preview and the parser.
fvars == <<fpc, retries, backoff, outcomes, waits, genResult>>

tvars == <<terminals, nextTerminalId, ptys, notes, lastOp>>

hvars == <<uncaught>>

wvars == <<wpc, now, deadline, intervalMs, portIdx, probe, portKind>>

\* The variables of the waits and of the renderer.
nvars == <<isOpen, paneCwd, terminalIdRef, ipc, replies, started, refCall>>
vvars == <<versions, currentIndex, pending, made, lastCall>>
yvars == <<wvars, nvars, vvars>>

xvars == <<rvars, fvars, tvars, hvars, yvars>>

vars == <<pvars, bvars, xvars>>

ProbedPorts == {COMMON_DEV_PORTS[i] : i \in 1..ProbeRange}

\* ------------------------------------------------------------ pure helpers
pathExists(files, p) == p \in files

IndexOf(dir) == dir \o "/index.html"

RECURSIVE firstBuildDir(_, _)
firstBuildDir(files, i) ==
  IF i > Len(BUILD_DIR_CANDIDATES) THEN 0
  ELSE IF pathExists(files, IndexOf(BUILD_DIR_CANDIDATES[i])) THEN i
  ELSE firstBuildDir(files, i + 1)

\* Faulty variant: the root index.html is tried before the build directories.
resolveStaticTarget_rootFirst(files) ==
  LET i == firstBuildDir(files, 1) IN
  IF pathExists(files, "index.html")
    THEN [root |-> ".", indexPath |-> "index.html", source |-> "root-index"]
  ELSE IF i # 0
    THEN [root |-> BUILD_DIR_CANDIDATES[i],
          indexPath |-> IndexOf(BUILD_DIR_CANDIDATES[i]),
          source |-> BUILD_DIR_CANDIDATES[i]]
  ELSE [root |-> "", indexPath |-> "", source |-> "none"]

\* main.js:93-108
resolveStaticTarget(files) ==
  LET i == firstBuildDir(files, 1) IN
  IF i # 0
    THEN [root |-> BUILD_DIR_CANDIDATES[i],
          indexPath |-> IndexOf(BUILD_DIR_CANDIDATES[i]),
          source |-> BUILD_DIR_CANDIDATES[i]]
  ELSE IF pathExists(files, "index.html")
    THEN [root |-> ".", indexPath |-> "index.html", source |-> "root-index"]
  ELSE NoTarget

\* Faulty variant: start is preferred over dev.
preferredScript_startFirst(layout) ==
  IF ~layout.pkg THEN ""
  ELSE IF "start" \in layout.scripts THEN "start"
  ELSE IF "dev" \in layout.scripts THEN "dev"
  ELSE ""

\* start-preview-server: scripts.dev ? 'dev' : scripts.start ? 'start' : null
preferredScript(layout) ==
  IF ~layout.pkg THEN ""
  ELSE IF "dev" \in layout.scripts THEN "dev"
  ELSE IF "start" \in layout.scripts THEN "start"
  ELSE ""

\* The raw-folder fallback target of start-preview-server.
rawRootTarget == [root |-> ".", indexPath |-> "", source |-> "raw-root"]

\* Boolean(target.indexPath): whether the SPA fallback middleware is installed.
spaFallback(target) == target.indexPath # ""

\* The answer of the preview listener to one HTTP request: express.static
\* first, then the fallback middleware when one was installed.
\* matches: express.static found a file for the path; accept: "" | "html" | "other".
HandleRequest(srv, method, accept, matches) ==
  IF matches /\ method \in {"GET", "HEAD"} THEN "static"
  ELSE IF srv.indexPath = "" THEN "404"
  ELSE IF method # "GET" THEN "404"
  ELSE IF accept # "" /\ accept # "html" THEN "404"
  ELSE "index"

\* ------------------------------------------------ the multi-file parser
\* A line is the sequence of its lexical tokens: ===, ###, **, a colon, a space,
\* a word, "TICK" for one backtick and "FENCE" for three; the regular expressions of execute-build are matched on
\* the tokens as the engine matches them on the characters.
IsFileWord(t) == t \in {"FILE", "File", "file"}     \* /file/i

RECURSIVE SkipSpaces(_, _)
SkipSpaces(line, k) ==                               \* \s* from position k
  IF k <= Len(line) /\ line[k] = " " THEN SkipSpaces(line, k + 1) ELSE k

From(line, k) == SubSeq(line, k, Len(line))

RECURSIVE TrimLeft(_)
TrimLeft(line) ==
  IF line # <<>> /\ line[1] = " " THEN TrimLeft(From(line, 2)) ELSE line

RECURSIVE TrimRight(_)
TrimRight(line) ==
  IF line # <<>> /\ line[Len(line)] = " "
    THEN TrimRight(SubSeq(line, 1, Len(line) - 1)) ELSE line

Trim(line) == TrimRight(TrimLeft(line))              \* String.prototype.trim

RECURSIVE StripTicksLeft(_)
StripTicksLeft(line) ==
  IF line # <<>> /\ line[1] \in {"TICK", "FENCE"} THEN StripTicksLeft(From(line, 2)) ELSE line

RECURSIVE StripTicksRight(_)
StripTicksRight(line) ==
  IF line # <<>> /\ line[Len(line)] \in {"TICK", "FENCE"}
    THEN StripTicksRight(SubSeq(line, 1, Len(line) - 1)) ELSE line

\* The path of a matched header: a trailing === is dropped, the text trimmed,
\* the backticks at both ends stripped.
cleanHeaderPath(cap) ==
  LET a == IF cap # <<>> /\ cap[Len(cap)] = "===" THEN SubSeq(cap, 1, Len(cap) - 1) ELSE cap
  IN StripTicksRight(StripTicksLeft(Trim(a)))

\* The capture group (.+) after \s*, both greedy: the spaces are skipped as
\* long as one token is left to capture.
CaptureRest(line, k) ==
  LET c == SkipSpaces(line, k) IN
  IF k > Len(line) THEN <<>>
  ELSE IF c > Len(line) THEN From(line, Len(line))
  ELSE From(line, c)

\* The colons that .*: can end at, from position lo on: greedy, so the last one
\* after which the rest of the pattern still matches.
LastColon(line, lo, ok) ==
  LET C == {m \in lo..Len(line) : line[m] = ":" /\ m \in ok}
  IN IF C = {} THEN 0 ELSE CHOOSE m \in C : \A n \in C : n <= m

\* /^===\s*FILE:\s*(.+?)===/i : the capture is lazy, up to the first "===".
Pattern1(line) ==
  IF Len(line) < 1 \/ line[1] # "===" THEN <<>>
  ELSE LET k == SkipSpaces(line, 2) IN
       IF ~(k + 1 <= Len(line) /\ IsFileWord(line[k]) /\ line[k + 1] = ":") THEN <<>>
       ELSE LET c == SkipSpaces(line, k + 2)
                E == {e \in (c + 1)..Len(line) : line[e] = "==="}
            IN IF E = {} THEN <<>>
               ELSE SubSeq(line, c, (CHOOSE e \in E : \A n \in E : e <= n) - 1)

\* /^###\s*FILE.*:\s*(.+)/i
Pattern2(line) ==
  IF Len(line) < 1 \/ line[1] # "###" THEN <<>>
  ELSE LET k == SkipSpaces(line, 2)
           ok == 1..(Len(line) - 1)
       IN IF ~(k <= Len(line) /\ IsFileWord(line[k])) THEN <<>>
          ELSE LET m == LastColon(line, k + 1, ok) IN
               IF m = 0 THEN <<>> ELSE CaptureRest(line, m + 1)

\* /^\*\*\s*File.*:\s*\*\*\s*(.+)/i
Pattern3(line) ==
  IF Len(line) < 1 \/ line[1] # "**" THEN <<>>
  ELSE LET k == SkipSpaces(line, 2)
           ok == {m \in 1..Len(line) : LET b == SkipSpaces(line, m + 1)
                                      IN b < Len(line) /\ line[b] = "**"}
       IN IF ~(k <= Len(line) /\ IsFileWord(line[k])) THEN <<>>
          ELSE LET m == LastColon(line, k + 1, ok) IN
               IF m = 0 THEN <<>> ELSE CaptureRest(line, SkipSpaces(line, m + 1) + 1)

\* /^File.*:\s*(.+)/i
Pattern4(line) ==
  LET ok == 1..(Len(line) - 1) IN
  IF Len(line) < 1 \/ ~IsFileWord(line[1]) THEN <<>>
  ELSE LET m == LastColon(line, 2, ok) IN
       IF m = 0 THEN <<>> ELSE CaptureRest(line, m + 1)

\* Faulty variant: the bold-label dialect is not among the header patterns.
matchHeader_noBold(line) ==
  IF Pattern1(line) # <<>> THEN cleanHeaderPath(Pattern1(line))
  ELSE IF Pattern2(line) # <<>> THEN cleanHeaderPath(Pattern2(line))
  ELSE IF Pattern4(line) # <<>> THEN cleanHeaderPath(Pattern4(line))
  ELSE <<>>

\* matchHeader: the first pattern that matches gives the path; <<>> is null
\* (and the empty string, which the caller treats alike).
matchHeader(line) ==
  IF Pattern1(line) # <<>> THEN cleanHeaderPath(Pattern1(line))
  ELSE IF Pattern2(line) # <<>> THEN cleanHeaderPath(Pattern2(line))
  ELSE IF Pattern3(line) # <<>> THEN cleanHeaderPath(Pattern3(line))
  ELSE IF Pattern4(line) # <<>> THEN cleanHeaderPath(Pattern4(line))
  ELSE <<>>

\* matchFooter: the trimmed line is one of the two end markers or a bare fence.
matchFooter(line) ==
  Trim(line) \in { <<"===", "END", " ", "FILE", "===">>,
                   <<"===", " ", "END", " ", "FILE", " ", "===">>,
                   <<"FENCE">> }

\* Faulty variant: the look-ahead passes over blank lines only.
isPreamble_blank(line) == Trim(line) = <<>>

\* The look-ahead after a header: the trimmed line is empty or starts a fence.
isPreamble(line) == Trim(line) = <<>> \/ Trim(line)[1] = "FENCE"

RECURSIVE skipPreamble(_, _)
skipPreamble(ls, j) ==
  IF j <= Len(ls) /\ isPreamble(ls[j]) THEN skipPreamble(ls, j + 1) ELSE j

\* trim() of a text held as lines: blank lines at both ends go, and so do the
\* spaces before its first and after its last token.
RECURSIVE TrimLinesLeft(_)
TrimLinesLeft(ls) ==
  IF ls = <<>> THEN <<>>
  ELSE IF Trim(ls[1]) = <<>> THEN TrimLinesLeft(From(ls, 2))
  ELSE <<TrimLeft(ls[1])>> \o From(ls, 2)

RECURSIVE TrimLinesRight(_)
TrimLinesRight(ls) ==
  IF ls = <<>> THEN <<>>
  ELSE IF Trim(ls[Len(ls)]) = <<>> THEN TrimLinesRight(SubSeq(ls, 1, Len(ls) - 1))
  ELSE SubSeq(ls, 1, Len(ls) - 1) \o <<TrimRight(ls[Len(ls)])>>

TrimLines(ls) == TrimLinesRight(TrimLinesLeft(ls))

\* stripCodeFences (main.js:195-202): the inside of the first fenced block if
\* the text holds one, else the trimmed text.  A fence is taken to open a line.
stripCodeFences(ls) ==
  LET F == {k \in 1..Len(ls) : ls[k] # <<>> /\ ls[k][1] = "FENCE"}
      a == CHOOSE k \in F : \A n \in F : k <= n
      G == {k \in F : k > a}
      b == CHOOSE k \in G : \A n \in G : k <= n
  IN IF F # {} /\ G # {} THEN TrimLines(SubSeq(ls, a + 1, b - 1)) ELSE TrimLines(ls)

\* --------------------------------------------------------------- the state
Layout(f) == fs[f]

ServerIds == DOMAIN servers
ProcIds == DOMAIN procs
ReqIds == DOMAIN reqs

BoundServers == {s \in ServerIds : servers[s].state = "bound"}
AliveProcs == {p \in ProcIds : procs[p].state = "alive"}

\* pingPort (main.js:142-157): ok iff something answers GET / with 2xx/3xx within
\* 800 ms.  A dev server answers; so does a preview listener of this tool that
\* serves an index.html at its root.
pingPort(port) ==
  \/ port \in ProbedPorts /\ portOwner[port] # NULL
  \/ \E s \in BoundServers : servers[s].port = port /\ servers[s].indexPath # ""

RECURSIVE firstLivePort(_)
firstLivePort(i) ==
  IF i > Len(COMMON_DEV_PORTS) THEN NULL
  ELSE IF isDev /\ COMMON_DEV_PORTS[i] = 5173 THEN firstLivePort(i + 1)
  ELSE IF pingPort(COMMON_DEV_PORTS[i]) THEN COMMON_DEV_PORTS[i]
  ELSE firstLivePort(i + 1)

\* main.js:159-171: the first probed port that answers, or null.  One pass is
\* taken as a snapshot of the ports.
findRunningDevServer == firstLivePort(1)

PortFree(port) ==
  /\ port \in ProbedPorts => portOwner[port] = NULL
  /\ \A s \in BoundServers : servers[s].port # port

RECURSIVE nthFreePort(_, _)
nthFreePort(i, n) ==
  IF i > Len(PREVIEW_PORTS) THEN NULL
  ELSE IF PortFree(PREVIEW_PORTS[i])
    THEN IF n = 1 THEN PREVIEW_PORTS[i] ELSE nthFreePort(i + 1, n - 1)
  ELSE nthFreePort(i + 1, n)

\* getPort({port: [...]}) of start-preview-server: the first candidate that is
\* free, or the next free one while get-port still holds the first locked.
getPort == {nthFreePort(1, 1), nthFreePort(1, 2)} \ {NULL}

\* Faulty variant: stopDevProcess that also kills whatever listens on the probed ports.
StopDevProcessKills_byPort(dp, info) ==
  (IF dp # NULL THEN {dp} ELSE {}) \cup ({portOwner[q] : q \in ProbedPorts} \ {NULL})

\* stopDevProcess (main.js:183-190): the handles kill() is called on.
StopDevProcessKills(dp, info) ==
  IF dp # NULL /\ info.startedByApp THEN {dp} ELSE {}

Killed(K) ==
  [p \in ProcIds |->
     IF p \in K /\ procs[p].state = "alive"
       THEN [procs[p] EXCEPT !.state = "killed"] ELSE procs[p]]

\* previewServer.close(cb) (main.js:129): the listening socket is closed at once,
\* the callback runs on the 'close' event, once the open connections ended.
serverClose(s) == [servers EXCEPT ![s].state = "closing"]

\* Faulty variant: the teardown of the previous listener is skipped.
hasPreviewServer_never(ps) == FALSE

\* if (previewServer) of stopExistingPreviewServer (main.js:127)
hasPreviewServer(ps) == ps # NULL

\* Faulty variant: previewPort is not reset when the listener was closed.
clearedPreview_keepsPort == [server |-> NULL, port |-> previewPort]

\* previewServer = null; previewPort = null (main.js:133-134)
clearedPreview == [server |-> NULL, port |-> NULL]

\* A listener whose 'close' event fired, a child whose 'exit' event fired, a
\* request whose response was returned: nothing of them is read any more.
ClosedServer == [port |-> NULL, root |-> "", indexPath |-> "", state |-> "closed"]
ExitedProc == [cwd |-> "", script |-> "", state |-> "exited"]
DoneReq == [kind |-> "", folder |-> "", pc |-> "done", after |-> "", waitOn |-> NULL,
            target |-> NoTarget, script |-> "", proc |-> NULL, sup |-> NULL]

NoResult == [id |-> 0, kind |-> "none", after |-> "none", folder |-> "", success |-> FALSE,
             needsRuntime |-> FALSE, via |-> "none", url |-> NULL, servedFrom |-> "",
             spaFallback |-> FALSE, proc |-> NULL, server |-> NULL]

Result(r, via, ok, url) ==
  [NoResult EXCEPT !.id = r, !.kind = reqs[r].kind, !.after = reqs[r].after,
                   !.folder = reqs[r].folder, !.success = ok, !.via = via, !.url = url,
                   !.proc = reqs[r].proc]

StopResult(r, after) ==
  [NoResult EXCEPT !.id = r, !.kind = "stop", !.after = after, !.success = TRUE,
                   !.via = "stopped"]

Idle == \A r \in ReqIds : reqs[r].pc = "done"

\* ------------------------------------------------ execute-build: the paths
\* A path is the sequence of its tokens: "/" and the backslash are separators,
\* "." is one dot at the start of a segment, everything else is a name.  The
\* path module is the POSIX one.
SEP == "/"
BACKSLASH == "\\"
ProjectRoot == <<SEP, "proj">>                       \* folderPath

\* The segments of a path, split at "/".
RECURSIVE Segs(_)
Segs(p) ==
  LET S == {k \in 1..Len(p) : p[k] = SEP} IN
  IF S = {} THEN <<p>>
  ELSE LET k == CHOOSE m \in S : \A n \in S : m <= n
       IN <<SubSeq(p, 1, k - 1)>> \o Segs(From(p, k + 1))

\* path.normalize on segments: empty and "." segments go, ".." takes back the
\* segment before it, stays if there is none to take (relative) or is dropped
\* (absolute).
RECURSIVE NormSegs(_, _, _)
NormSegs(segs, acc, abs) ==
  IF segs = <<>> THEN acc
  ELSE LET g == segs[1]
           rest == From(segs, 2)
       IN IF g = <<>> \/ g = <<".">> THEN NormSegs(rest, acc, abs)
          ELSE IF g = <<".", ".">>
            THEN IF acc # <<>> /\ acc[Len(acc)] # <<".", ".">>
                   THEN NormSegs(rest, SubSeq(acc, 1, Len(acc) - 1), abs)
                 ELSE IF abs THEN NormSegs(rest, acc, abs)
                 ELSE NormSegs(rest, Append(acc, g), abs)
          ELSE NormSegs(rest, Append(acc, g), abs)

RECURSIVE Unsegs(_)
Unsegs(segs) ==
  IF segs = <<>> THEN <<>>
  ELSE IF Len(segs) = 1 THEN segs[1]
  ELSE segs[1] \o <<SEP>> \o Unsegs(From(segs, 2))

isAbsolute(p) == p # <<>> /\ p[1] = SEP                \* path.isAbsolute

pathJoin(a, b) ==                                      \* path.join(a, b)
  LET p == a \o <<SEP>> \o b
      n == Unsegs(NormSegs(Segs(p), <<>>, isAbsolute(p)))
  IN IF isAbsolute(p) THEN <<SEP>> \o n ELSE IF n = <<>> THEN <<".">> ELSE n

\* relativePath.replace(/^[./\\]+/, ''): every leading dot, slash and backslash.
RECURSIVE cleanPath_of(_)
cleanPath_of(p) ==
  IF p # <<>> /\ p[1] \in {".", SEP, BACKSLASH} THEN cleanPath_of(From(p, 2)) ELSE p

startsWithDir(p, dir) == Len(p) >= 2 /\ p[1] = dir /\ p[2] = SEP
endsWithSrc(p) == p # <<>> /\ p[Len(p)] = "src"        \* endsWith('src')

\* detectProjectStructure, the suggestedOutputDir it returns.  (path.join(..)
\* is never falsy, so the || of the Next.js branch always yields pages.)
Frameworks == {"next", "react", "vue", "svelte", "html", "unknown"}
detectProjectStructure(framework, hasSrcFolder, hasApp) ==
  IF ~hasSrcFolder THEN ProjectRoot
  ELSE IF framework = "next"
    THEN IF hasApp THEN pathJoin(ProjectRoot, <<"app">>) ELSE pathJoin(ProjectRoot, <<"pages">>)
  ELSE IF framework \in {"html", "unknown"} THEN ProjectRoot
  ELSE pathJoin(ProjectRoot, <<"src">>)

\* saveParsedFile, the computation of fullPath.
resolvePath(relativePath, folderPath, suggestedOutputDir) ==
  IF isAbsolute(relativePath) THEN relativePath
  ELSE IF startsWithDir(relativePath, "componentAI") THEN pathJoin(folderPath, relativePath)
  ELSE LET cleanPath == cleanPath_of(relativePath) IN
       IF endsWithSrc(suggestedOutputDir) /\ startsWithDir(cleanPath, "src")
         THEN pathJoin(folderPath, cleanPath)
         ELSE pathJoin(suggestedOutputDir, cleanPath)

\* ------------------------------------------- execute-build: the parse loop
NoPlan == <<>>
NoBuildResult == [success |-> FALSE, files |-> <<>>, error |-> "none"]
SentinelPath == pathJoin(ProjectRoot, <<"build-output.txt">>)

BuildIdle ==
  /\ plan = NoPlan
  /\ lines = <<>>
  /\ idx = 1
  /\ currentFile = <<>>
  /\ currentContent = <<>>
  /\ parsed = <<>>
  /\ ppc = "idle"
  /\ outDir = ProjectRoot
  /\ unwritable = {}
  /\ noDir = {}
  /\ madeDirs = {}
  /\ createdFiles = <<>>
  /\ disk = {}
  /\ buildResult = NoBuildResult

\* fs.writeFile(path, content): the file holds the content afterwards.
writeFile(d, path, content) ==
  {e \in d : e.path # path} \cup {[path |-> path, content |-> content]}

\* Faulty variant: no write ever fails.
writeFails_never(fullPath) == FALSE

\* mkdir + writeFile of saveParsedFile throw for this path.
writeFails(fullPath) == fullPath \in unwritable

\* fs.mkdir(path.dirname(fullPath), { recursive: true }) throws for this path.
mkdirFails(fullPath) == fullPath \in noDir

\* path.dirname of a full path: what stands before its last separator.
dirname(p) ==
  LET S == {k \in 1..Len(p) : p[k] = SEP}
      last == CHOOSE k \in S : \A n \in S : n <= k
  IN IF S = {} THEN <<".">>
     ELSE IF last = 1 THEN <<SEP>>
     ELSE SubSeq(p, 1, last - 1)

\* saveParsedFile: the content is stripped of its code fences, the path
\* resolved, the directory made, the file written and pushed to createdFiles;
\* a failing mkdir or writeFile is caught and logged, and nothing is pushed.
saveParsedFile(path, content) ==
  LET cleanContent == stripCodeFences(content)
      fullPath == resolvePath(path, ProjectRoot, outDir)
  IN /\ parsed' = Append(parsed, [path |-> path, content |-> cleanContent])
     /\ IF mkdirFails(fullPath)
          THEN UNCHANGED <<disk, createdFiles, madeDirs>>
          ELSE /\ madeDirs' = madeDirs \cup {dirname(fullPath)}
               /\ IF writeFails(fullPath)
                    THEN UNCHANGED <<disk, createdFiles>>
                    ELSE /\ disk' = writeFile(disk, fullPath, cleanContent)
                         /\ createdFiles' = Append(createdFiles, fullPath)

\* One turn of for (let i = 0; i < lines.length; i++).
ParseLine ==
  /\ ppc = "loop"
  /\ idx <= Len(lines)
  /\ LET line == lines[idx]
         filename == matchHeader(line)
     IN IF filename # <<>>
          THEN /\ IF currentFile # <<>>
                    THEN saveParsedFile(currentFile, currentContent)
                    ELSE UNCHANGED <<parsed, disk, createdFiles, madeDirs>>
               /\ currentFile' = filename
               /\ currentContent' = <<>>
               /\ idx' = skipPreamble(lines, idx + 1)
          ELSE IF currentFile # <<>>
            THEN IF matchFooter(line)
                   THEN /\ saveParsedFile(currentFile, currentContent)
                        /\ currentFile' = <<>>
                        /\ currentContent' = <<>>
                        /\ idx' = idx + 1
                   ELSE /\ currentContent' = Append(currentContent, line)
                        /\ idx' = idx + 1
                        /\ UNCHANGED <<parsed, currentFile, disk, createdFiles, madeDirs>>
          ELSE /\ idx' = idx + 1
               /\ UNCHANGED <<parsed, currentFile, currentContent, disk, createdFiles, madeDirs>>
  /\ UNCHANGED <<plan, lines, ppc, outDir, unwritable, noDir, buildResult, pvars, xvars>>

\* After the loop: if (currentFile && currentContent.length > 0) save it.
ParseEnd ==
  /\ ppc = "loop"
  /\ idx > Len(lines)
  /\ IF currentFile # <<>> /\ currentContent # <<>>
       THEN saveParsedFile(currentFile, currentContent)
       ELSE UNCHANGED <<parsed, disk, createdFiles, madeDirs>>
  /\ ppc' = "done"
  /\ UNCHANGED <<plan, lines, idx, currentFile, currentContent,
                 outDir, unwritable, noDir, buildResult, pvars, xvars>>

\* The end of execute-build: with no created file the whole response goes to
\* build-output.txt and the failure naming it is returned; a throwing writeFile
\* lands in the outer catch, which returns error.message.
BuildReturn ==
  /\ ppc = "done"
  /\ ppc' = "returned"
  /\ IF createdFiles = <<>>
       THEN IF writeFails(SentinelPath)
              THEN /\ buildResult' = [success |-> FALSE, files |-> <<>>, error |-> "thrown"]
                   /\ UNCHANGED disk
              ELSE /\ disk' = writeFile(disk, SentinelPath, lines)
                   /\ buildResult' = [success |-> FALSE, files |-> <<>>, error |-> "sentinel"]
       ELSE /\ buildResult' = [success |-> TRUE, files |-> createdFiles, error |-> "none"]
            /\ UNCHANGED disk
  /\ UNCHANGED <<plan, lines, idx, currentFile, currentContent, parsed,
                 outDir, unwritable, noDir, madeDirs, createdFiles, pvars, xvars>>

\* ---- composed responses: three files, each under its own header dialect
Dialects == 1..4
Wraps == {"bare", "fenced", "marked", "spaced"}
Paths == << <<"src", SEP, "a.js">>, <<"b.css">>, <<".", SEP, "c.html">> >>
CodeWords == << <<"a1", "a2", "a3">>, <<"b1", "b2", "b3">>, <<"c1", "c2", "c3">> >>

\* ===FILE: p===   ### FILE: p   **File:** p   File: p
HeaderLine(d, p) ==
  CASE d = 0 -> <<"Here", " ", "is", " ">> \o p          \* prose, no header
    [] d = 1 -> <<"===", "FILE", ":", " ">> \o p \o <<"===">>
    [] d = 2 -> <<"###", " ", "FILE", ":", " ">> \o p
    [] d = 3 -> <<"**", "File", ":", "**", " ">> \o p
    [] d = 4 -> <<"File", ":", " ">> \o p

\* The first n lines of file k; every second one is indented and holds a colon.
Code(k, n) ==
  [j \in 1..n |-> IF j % 2 = 0 THEN <<" ", "key", ":", " ", CodeWords[k][j]>>
                               ELSE <<CodeWords[k][j]>>]

\* The lines of file k of the plan: bare (nothing but the header and the code),
\* fenced (path in backticks, code in a fenced block, a remark after it),
\* marked (closed by ===END FILE=== and a blank line), spaced (a blank line
\* after the header, closed by === END FILE ===).
Block(k, f) ==
  CASE f.wrap = "bare" ->
         <<HeaderLine(f.dialect, Paths[k])>> \o Code(k, f.len)
    [] f.wrap = "fenced" ->
         <<HeaderLine(f.dialect, <<"TICK">> \o Paths[k] \o <<"TICK">>), <<"FENCE", "js">>>>
           \o Code(k, f.len) \o << <<"FENCE">>, <<>>, <<"Next", " ", "file", ":">> >>
    [] f.wrap = "marked" ->
         <<HeaderLine(f.dialect, Paths[k])>> \o Code(k, f.len)
           \o << <<"===", "END", " ", "FILE", "===">>, <<>> >>
    [] f.wrap = "spaced" ->
         <<HeaderLine(f.dialect, Paths[k]), <<>>>> \o Code(k, f.len)
           \o << <<"===", " ", "END", " ", "FILE", " ", "===">> >>

Plans ==
  {p \in [1..3 -> [dialect : Dialects, wrap : Wraps, len : 1..MaxContent]] :
     /\ p[1].dialect # p[2].dialect
     /\ p[1].dialect # p[3].dialect
     /\ p[2].dialect # p[3].dialect}

\* The response text: trimmed (.join, .trim()) and split into lines.
Render(p) == TrimLines(Block(1, p[1]) \o Block(2, p[2]) \o Block(3, p[3]))

\* ------------------------------------------------------- fetchWithRetry
RETRIES == 3          \* retries = 3
BACKOFF == 1000       \* backoff = 1000
NETERR == -2          \* fetch() rejected
Statuses == {200, 404, 429, 500, 502, 503, 504}
Outcomes == Statuses \cup {NETERR}

FetchIdle ==
  /\ fpc = "idle"
  /\ retries = RETRIES
  /\ backoff = BACKOFF
  /\ outcomes = <<>>
  /\ waits = <<>>
  /\ genResult = "none"

\* Faulty variant: the wait is not doubled.
nextBackoff_same(b) == b

nextBackoff(b) == b * 2                               \* backoff * 2

\* res.status === 503 && retries > 0, or the catch with retries > 0.
shouldRetry(outcome, left) == outcome \in {503, NETERR} /\ left > 0

\* res.ok
resOk(status) == status >= 200 /\ status <= 299

\* await fetch(url, options) settles with some outcome; fetchWithRetry goes
\* on to delay(backoff), returns res or rethrows.
FetchCall(o) ==
  /\ fpc = "call"
  /\ outcomes' = Append(outcomes, o)
  /\ fpc' = IF shouldRetry(o, retries) THEN "delay"
            ELSE IF o = NETERR THEN "thrown" ELSE "returned"
  /\ UNCHANGED <<retries, backoff, waits, genResult, rvars, tvars, hvars, yvars, pvars, bvars>>

\* await delay(backoff); return fetchWithRetry(url, options, retries - 1, backoff * 2)
FetchDelay ==
  /\ fpc = "delay"
  /\ waits' = Append(waits, backoff)
  /\ retries' = retries - 1
  /\ backoff' = nextBackoff(backoff)
  /\ fpc' = "call"
  /\ UNCHANGED <<outcomes, genResult, rvars, tvars, hvars, yvars, pvars, bvars>>

\* execute-build after the generation call: a response that is not ok is
\* returned as a failure, a thrown error lands in the catch, else the
\* response is parsed.
FetchSurface ==
  /\ fpc \in {"returned", "thrown"}
  /\ genResult = "none"
  /\ genResult' = IF fpc = "thrown" THEN "error"
                  ELSE IF resOk(outcomes[Len(outcomes)]) THEN "parse" ELSE "error"
  /\ UNCHANGED <<fpc, retries, backoff, outcomes, waits, rvars, tvars, hvars, yvars, pvars, bvars>>

\* ---------------------------------------------------------- the terminals
\* Ids a renderer may name: those that can be allocated and one that never is.
TermIds == 1..(MaxTerm + 1)
PtyIds == 1..Len(ptys)
NoOp == [op |-> "none", id |-> NULL, effect |-> "none"]
Op(op, id, effect) == [op |-> op, id |-> id, effect |-> effect]

\* State after module load: terminals = new Map(), nextTerminalId = 1.
TermIdle ==
  /\ terminals = [i \in TermIds |-> NULL]
  /\ nextTerminalId = 1
  /\ ptys = <<>>
  /\ notes = [i \in TermIds |-> <<>>]
  /\ lastOp = NoOp

\* Faulty variant: every id has an entry.
entryOf_any(t, id) == 1

\* terminals.get(id)?.ptyProcess
entryOf(t, id) == t[id]

\* Faulty variant: the exit is only reported for a registered session.
exitReported_ifRegistered(t, id) == t[id] # NULL

\* onExit sends terminal-exit whatever the registry holds.
exitReported(t, id) == TRUE

\* Faulty variant: the id is not advanced.
idAfter_same(id) == id

idAfter(id) == id + 1                                 \* nextTerminalId++

\* Faulty variant: the whole map is cleared.
deleted_all(t, id) == [i \in TermIds |-> NULL]

deleted(t, id) == [t EXCEPT ![id] = NULL]             \* terminals.delete(id)

Count(seq, x) == Cardinality({k \in 1..Len(seq) : seq[k] = x})

\* terminal-create: pty.spawn, id = nextTerminalId++, terminals.set, onData and
\* onExit wired, { success: true, id } returned; all in one turn.
terminalCreate ==
  /\ Len(ptys) < MaxTerm
  /\ nextTerminalId \in TermIds
  /\ LET id == nextTerminalId IN
     /\ ptys' = Append(ptys, [id |-> id, state |-> "running", killed |-> FALSE, input |-> 0])
     /\ nextTerminalId' = idAfter(id)
     /\ terminals' = [terminals EXCEPT ![id] = Len(ptys) + 1]
     /\ lastOp' = Op("create", id, "created")
  /\ UNCHANGED notes

TerminalCreate ==
  /\ terminalCreate
  /\ UNCHANGED <<rvars, fvars, hvars, yvars, pvars, bvars>>

\* terminal-write: forwarded to the pty of the entry, if there is one.
TerminalWrite(id) ==
  /\ LET p == entryOf(terminals, id) IN
     IF p # NULL
       THEN /\ p \in PtyIds
            /\ ptys[p].input < MaxData
            /\ ptys' = [ptys EXCEPT ![p].input = @ + 1]
            /\ lastOp' = Op("write", id, "forwarded")
       ELSE /\ lastOp' = Op("write", id, "dropped")
            /\ UNCHANGED ptys
  /\ UNCHANGED <<terminals, nextTerminalId, notes, rvars, fvars, hvars, yvars, pvars, bvars>>

\* terminal-resize: ptyProcess.resize in a try/catch.
TerminalResize(id, fails) ==
  /\ LET p == entryOf(terminals, id) IN
     lastOp' = IF p = NULL THEN Op("resize", id, "dropped")
               ELSE IF fails THEN Op("resize", id, "caught")
               ELSE Op("resize", id, "resized")
  /\ UNCHANGED <<terminals, nextTerminalId, ptys, notes, rvars, fvars, hvars, yvars, pvars, bvars>>

\* terminal-dispose: kill the pty of the entry, if any; terminals.delete(id).
terminalDispose(id) ==
  /\ LET p == entryOf(terminals, id) IN
     IF p # NULL
       THEN /\ p \in PtyIds
            /\ ptys' = [ptys EXCEPT ![p].killed = TRUE]
            /\ lastOp' = Op("dispose", id, "killed")
       ELSE /\ lastOp' = Op("dispose", id, "dropped")
            /\ UNCHANGED ptys
  /\ terminals' = deleted(terminals, id)
  /\ UNCHANGED <<nextTerminalId, notes>>

TerminalDispose(id) ==
  /\ terminalDispose(id)
  /\ UNCHANGED <<rvars, fvars, hvars, yvars, pvars, bvars>>

\* ptyProcess.onData of pty p: terminal-data for the id of its closure.
PtyData(p) ==
  /\ p \in PtyIds
  /\ ptys[p].state = "running"
  /\ Count(notes[ptys[p].id], "data") < MaxData
  /\ notes' = [notes EXCEPT ![ptys[p].id] = Append(@, "data")]
  /\ lastOp' = Op("data", ptys[p].id, "sent")
  /\ UNCHANGED <<terminals, nextTerminalId, ptys, rvars, fvars, hvars, yvars, pvars, bvars>>

\* ptyProcess.onExit of pty p (the shell ended by itself or was killed):
\* terminals.delete(id), then terminal-exit for the id of its closure.
PtyExit(p) ==
  /\ p \in PtyIds
  /\ ptys[p].state = "running"
  /\ ptys' = [ptys EXCEPT ![p].state = "exited"]
  /\ notes' = IF exitReported(terminals, ptys[p].id)
                THEN [notes EXCEPT ![ptys[p].id] = Append(@, "exit")]
                ELSE notes
  /\ terminals' = deleted(terminals, ptys[p].id)
  /\ lastOp' = Op("exit", ptys[p].id, "sent")
  /\ UNCHANGED <<nextTerminalId, rvars, fvars, hvars, yvars, pvars, bvars>>

TermNext ==
  \/ TerminalCreate
  \/ \E id \in 1..(MaxTerm + 1) : TerminalWrite(id)
  \/ \E id \in 1..(MaxTerm + 1) : \E fails \in BOOLEAN : TerminalResize(id, fails)
  \/ \E id \in 1..(MaxTerm + 1) : TerminalDispose(id)
  \/ \E p \in 1..MaxTerm : PtyData(p)
  \/ \E p \in 1..MaxTerm : PtyExit(p)

\* ------------------------------------------ pingPort and waitForDevServer
PING_TIMEOUT == 800           \* req.setTimeout(800, ...)
WAIT_TIMEOUT == 20000         \* waitForDevServer(timeoutMs = 20000, ...)
WAIT_INTERVAL == 1000         \* waitForDevServer(..., intervalMs = 1000)
REUSE_TIMEOUT == 5000         \* waitForDevServer(5000, 500)
REUSE_INTERVAL == 500

\* What a GET to a port meets: the connection is refused, nothing comes back,
\* or a response with a status.
PortKinds == {"refused", "silent", "200", "302", "404", "500"}
StatusOf(k) == CASE k = "200" -> 200 [] k = "302" -> 302 [] k = "404" -> 404 [] k = "500" -> 500
NoProbe == [state |-> "none", ok |-> FALSE, by |-> "none", timer |-> "none"]

WaitIdle ==
  /\ wpc = "idle"
  /\ now = 0
  /\ deadline = 0
  /\ intervalMs = 0
  /\ portIdx = 1
  /\ probe = NoProbe
  /\ portKind = [i \in 1..Len(COMMON_DEV_PORTS) |-> "refused"]

\* resolve(v) of the promise of pingPort: only the first call counts.
resolved(p, ok, by) ==
  IF p.state = "pending" THEN [p EXCEPT !.state = "resolved", !.ok = ok, !.by = by] ELSE p

\* Faulty variant: the timeout callback destroys the request and resolves nothing.
onTimeout_silent(p) == p

\* req.setTimeout(800, () => { req.destroy(); resolve({ ok: false }) })
onTimeout(p) == resolved(p, FALSE, "timeout")

\* A findRunningDevServer() called on its own (start-preview-server, line 259)
\* has no deadline: deadline = NULL.
lonePass == deadline = NULL

\* while (Date.now() < deadline): another pass, or return null.
WaitCheck ==
  /\ wpc = "check"
  /\ IF now < deadline
       THEN wpc' = "pass" /\ portIdx' = 1
       ELSE wpc' = "timedOut" /\ UNCHANGED portIdx
  /\ UNCHANGED <<now, deadline, intervalMs, probe, portKind>>
  /\ UNCHANGED <<pvars, bvars, rvars, fvars, tvars, hvars, nvars, vvars>>

\* findRunningDevServer: the next port of the list is pinged, or is skipped,
\* or the list is through and null is returned to the wait.
PassNext ==
  /\ wpc = "pass"
  /\ probe.state = "none"
  /\ IF portIdx > Len(COMMON_DEV_PORTS)
       THEN /\ wpc' = IF lonePass THEN "none" ELSE "delay"
            /\ UNCHANGED <<portIdx, probe>>
       ELSE IF isDev /\ COMMON_DEV_PORTS[portIdx] = 5173
         THEN portIdx' = portIdx + 1 /\ UNCHANGED <<wpc, probe>>
         ELSE /\ probe' = [NoProbe EXCEPT !.state = "pending", !.timer = "armed"]
              /\ UNCHANGED <<wpc, portIdx>>
  /\ UNCHANGED <<now, deadline, intervalMs, portKind>>
  /\ UNCHANGED <<pvars, bvars, rvars, fvars, tvars, hvars, nvars, vvars>>

\* pingPort: the response callback; ok iff 200 <= statusCode < 400.
ProbeResponse ==
  /\ probe.state = "pending"
  /\ portKind[portIdx] \in {"200", "302", "404", "500"}
  /\ LET st == StatusOf(portKind[portIdx])
     IN probe' = resolved(probe, st >= 200 /\ st < 400, "response")
  /\ UNCHANGED <<wpc, now, deadline, intervalMs, portIdx, portKind>>
  /\ UNCHANGED <<pvars, bvars, rvars, fvars, tvars, hvars, nvars, vvars>>

\* pingPort: .on('error', ...) for a refused connection.
ProbeError ==
  /\ probe.state = "pending"
  /\ portKind[portIdx] = "refused"
  /\ probe' = resolved(probe, FALSE, "error")
  /\ UNCHANGED <<wpc, now, deadline, intervalMs, portIdx, portKind>>
  /\ UNCHANGED <<pvars, bvars, rvars, fvars, tvars, hvars, nvars, vvars>>

\* pingPort: nothing came back for 800 ms.
ProbeTimeout ==
  /\ probe.state = "pending"
  /\ portKind[portIdx] = "silent"
  /\ probe.timer = "armed"
  /\ now' = now + PING_TIMEOUT
  /\ probe' = [onTimeout(probe) EXCEPT !.timer = "fired"]
  /\ UNCHANGED <<wpc, deadline, intervalMs, portIdx, portKind>>
  /\ UNCHANGED <<pvars, bvars, rvars, fvars, tvars, hvars, nvars, vvars>>

\* findRunningDevServer after await pingPort(port): return the url or go on.
PassResult ==
  /\ wpc = "pass"
  /\ probe.state = "resolved"
  /\ IF probe.ok
       THEN wpc' = "found" /\ UNCHANGED <<portIdx, probe>>
       ELSE portIdx' = portIdx + 1 /\ probe' = NoProbe /\ UNCHANGED wpc
  /\ UNCHANGED <<now, deadline, intervalMs, portKind>>
  /\ UNCHANGED <<pvars, bvars, rvars, fvars, tvars, hvars, nvars, vvars>>

\* await delay(intervalMs)
WaitDelay ==
  /\ wpc = "delay"
  /\ now' = now + intervalMs
  /\ wpc' = "check"
  /\ UNCHANGED <<deadline, intervalMs, portIdx, probe, portKind>>
  /\ UNCHANGED <<pvars, bvars, rvars, fvars, tvars, hvars, nvars, vvars>>

\* The dev server behind one of the first ports comes up.
PortComesUp(i) ==
  /\ wpc \notin {"idle", "found", "timedOut", "none"}
  /\ portKind[i] \in {"refused", "silent"}
  /\ portKind' = [portKind EXCEPT ![i] = "200"]
  /\ UNCHANGED <<wpc, now, deadline, intervalMs, portIdx, probe>>
  /\ UNCHANGED <<pvars, bvars, rvars, fvars, tvars, hvars, nvars, vvars>>

WaitSteps ==
  \/ WaitCheck
  \/ PassNext
  \/ ProbeResponse
  \/ ProbeError
  \/ ProbeTimeout
  \/ PassResult
  \/ WaitDelay

\* ------------------------------------------------------- TerminalPane.jsx
\* The component before it was ever opened.
PaneIdle ==
  /\ isOpen = FALSE
  /\ paneCwd = ""
  /\ terminalIdRef = NULL
  /\ ipc = <<>>
  /\ replies = <<>>
  /\ started = 0
  /\ refCall = 0

\* cleanupTerminal: if (terminalIdRef.current) bridge.disposeTerminal(it).
disposeSent(q, ref) ==
  IF ref # NULL THEN Append(q, [type |-> "dispose", id |-> ref]) ELSE q

\* startTerminal() of the effect: bridge.startTerminal({cwd, cols, rows}) is
\* sent; its continuation runs when the response is delivered.
createSent(q) == Append(q, [type |-> "create", id |-> NULL])

\* The pane is opened for folder c: the effect runs and starts a terminal.
PaneOpen(c) ==
  /\ ~isOpen
  /\ started < MaxTerm
  /\ isOpen' = TRUE
  /\ paneCwd' = c
  /\ ipc' = createSent(ipc)
  /\ started' = started + 1
  /\ UNCHANGED <<terminalIdRef, replies, refCall>>
  /\ UNCHANGED <<pvars, bvars, rvars, fvars, tvars, hvars, wvars, vvars>>

\* The cwd prop changes while the pane is open: the cleanup of the effect
\* runs cleanupTerminal, then the effect runs again and starts a terminal.
PaneCwdChange(c) ==
  /\ isOpen
  /\ c # paneCwd
  /\ started < MaxTerm
  /\ paneCwd' = c
  /\ ipc' = createSent(disposeSent(ipc, terminalIdRef))
  /\ terminalIdRef' = NULL
  /\ refCall' = 0
  /\ started' = started + 1
  /\ UNCHANGED <<isOpen, replies>>
  /\ UNCHANGED <<pvars, bvars, rvars, fvars, tvars, hvars, wvars, vvars>>

\* The pane is closed: the cleanup of the effect runs cleanupTerminal, and the
\* effect, run with isOpen false, runs it once more.
PaneClose ==
  /\ isOpen
  /\ isOpen' = FALSE
  /\ ipc' = disposeSent(ipc, terminalIdRef)
  /\ terminalIdRef' = NULL
  /\ refCall' = 0
  /\ UNCHANGED <<paneCwd, replies, started>>
  /\ UNCHANGED <<pvars, bvars, rvars, fvars, tvars, hvars, wvars, vvars>>

\* The main process handles the next invocation: terminal-create answers with
\* the id, terminal-dispose kills and unregisters.
MainHandle ==
  /\ ipc # <<>>
  /\ ipc' = From(ipc, 2)
  /\ IF ipc[1].type = "create"
       THEN /\ terminalCreate
            /\ replies' = Append(replies, nextTerminalId)
       ELSE /\ terminalDispose(ipc[1].id)
            /\ UNCHANGED replies
  /\ UNCHANGED <<isOpen, paneCwd, terminalIdRef, started, refCall>>
  /\ UNCHANGED <<pvars, bvars, rvars, fvars, hvars, wvars, vvars>>

\* The response of a terminal-create arrives: the continuation of
\* startTerminal stores response.id in terminalIdRef.current.
PaneResponse ==
  /\ replies # <<>>
  /\ terminalIdRef' = replies[1]
  /\ refCall' = started - Len(replies) - Cardinality({k \in 1..Len(ipc) : ipc[k].type = "create"}) + 1
  /\ replies' = From(replies, 2)
  /\ UNCHANGED <<isOpen, paneCwd, ipc, started>>
  /\ UNCHANGED <<pvars, bvars, rvars, fvars, tvars, hvars, wvars, vvars>>

PaneNext ==
  \/ \E c \in Folders : PaneOpen(c)
  \/ \E c \in Folders : PaneCwdChange(c)
  \/ PaneClose
  \/ MainHandle
  \/ PaneResponse
  \/ \E p \in 1..MaxTerm : PtyData(p)
  \/ \E p \in 1..MaxTerm : PtyExit(p)

\* ------------------------------------------------------ useVersionHistory
MaxMade == 3

\* useState([{ id: 0, ... }]), useState(0)
HistoryIdle ==
  /\ versions = <<0>>
  /\ currentIndex = 0
  /\ pending = {}
  /\ made = 0
  /\ lastCall = "none"

\* prev.slice(0, currentIndex + 1), currentIndex being that of the closure.
truncated(vs, c) == SubSeq(vs, 1, IF c + 1 < Len(vs) THEN c + 1 ELSE Len(vs))

\* addVersion of the render whose currentIndex was c: both updaters applied.
addVersion(c) ==
  /\ made < MaxMade
  /\ versions' = Append(truncated(versions, c), made + 1)
  /\ currentIndex' = currentIndex + 1
  /\ made' = made + 1
  /\ lastCall' = "addVersion"

\* addVersion called from the current render.
AddVersion ==
  /\ addVersion(currentIndex)
  /\ UNCHANGED pending
  /\ UNCHANGED <<pvars, bvars, rvars, fvars, tvars, hvars, wvars, nvars>>

\* handleSubmitEdit up to its await: the addVersion it will call is the one
\* of this render.
SubmitEdit ==
  /\ pending = {}
  /\ pending' = {currentIndex}
  /\ UNCHANGED <<versions, currentIndex, made, lastCall>>
  /\ UNCHANGED <<pvars, bvars, rvars, fvars, tvars, hvars, wvars, nvars>>

\* handleSubmitEdit after its await: addVersion(res.updatedCode, editPrompt),
\* or no updated code came back.
EditReturned ==
  /\ pending # {}
  /\ \E c \in pending, withCode \in BOOLEAN :
       IF withCode THEN addVersion(c)
       ELSE UNCHANGED <<versions, currentIndex, made, lastCall>>
  /\ pending' = {}
  /\ UNCHANGED <<pvars, bvars, rvars, fvars, tvars, hvars, wvars, nvars>>

GoToVersion(index) ==
  /\ IF index >= 0 /\ index < Len(versions)
       THEN currentIndex' = index
       ELSE UNCHANGED currentIndex
  /\ lastCall' = "goToVersion"
  /\ UNCHANGED <<versions, pending, made>>
  /\ UNCHANGED <<pvars, bvars, rvars, fvars, tvars, hvars, wvars, nvars>>

Undo ==
  /\ IF currentIndex > 0
       THEN currentIndex' = currentIndex - 1
       ELSE UNCHANGED currentIndex
  /\ lastCall' = "undo"
  /\ UNCHANGED <<versions, pending, made>>
  /\ UNCHANGED <<pvars, bvars, rvars, fvars, tvars, hvars, wvars, nvars>>

Redo ==
  /\ IF currentIndex < Len(versions) - 1
       THEN currentIndex' = currentIndex + 1
       ELSE UNCHANGED currentIndex
  /\ lastCall' = "redo"
  /\ UNCHANGED <<versions, pending, made>>
  /\ UNCHANGED <<pvars, bvars, rvars, fvars, tvars, hvars, wvars, nvars>>

Reset ==
  /\ made < MaxMade
  /\ versions' = <<made + 1>>
  /\ currentIndex' = 0
  /\ made' = made + 1
  /\ lastCall' = "reset"
  /\ UNCHANGED pending
  /\ UNCHANGED <<pvars, bvars, rvars, fvars, tvars, hvars, wvars, nvars>>

canRedo == currentIndex < Len(versions) - 1

HistoryNext ==
  \/ AddVersion
  \/ SubmitEdit
  \/ EditReturned
  \/ \E index \in 0..MaxMade : GoToVersion(index)
  \/ Undo
  \/ Redo
  \/ Reset

\* Nothing is waited for and the renderer is idle.
RendererIdle == WaitIdle /\ PaneIdle /\ HistoryIdle

\* No 'error' event went unhandled.
HostIdle == uncaught = FALSE

\* saveParsedFile is not resolving a path.
ResolveIdle == givenPath = <<>> /\ resolvedPath = <<>>

\* Nothing outside the preview handlers and execute-build is going on.
OthersIdle == ResolveIdle /\ FetchIdle /\ TermIdle /\ HostIdle /\ RendererIdle

\* The preview handlers were never invoked.
PreviewIdle ==
  /\ fs = [f \in Folders |-> DevOnly]
  /\ previewServer = NULL
  /\ previewPort = NULL
  /\ devProcess = NULL
  /\ devProcessInfo = NullInfo
  /\ servers = <<>>
  /\ procs = <<>>
  /\ portOwner = [p \in ProbedPorts |-> NULL]
  /\ extKilled = FALSE
  /\ reqs = <<>>
  /\ lastResult = NoResult

\* execute-build received the generation response of some plan.
ParseInit ==
  /\ plan \in Plans
  /\ lines = Render(plan)
  /\ idx = 1
  /\ currentFile = <<>>
  /\ currentContent = <<>>
  /\ parsed = <<>>
  /\ ppc = "loop"
  /\ outDir = ProjectRoot
  /\ unwritable = {}
  /\ noDir = {}
  /\ madeDirs = {}
  /\ createdFiles = <<>>
  /\ disk = {}
  /\ buildResult = NoBuildResult
  /\ PreviewIdle
  /\ OthersIdle

ParseNext == ParseLine \/ ParseEnd \/ BuildReturn

SpecParse == ParseInit /\ [][ParseNext]_vars

\* ---- execute-build as a whole: responses whose files may lack a header, in a
\* project where some targets cannot be written.
BuildPlans == [1..3 -> [dialect : {0, 1, 3}, wrap : {"bare", "marked"}, len : {1}]]
OutDirs == {detectProjectStructure(fw, src, FALSE) : fw \in {"react", "html"}, src \in BOOLEAN}
Targets(od) == {resolvePath(Paths[k], ProjectRoot, od) : k \in 1..3} \cup {SentinelPath}

BuildInit ==
  /\ plan \in BuildPlans
  /\ lines = Render(plan)
  /\ idx = 1
  /\ currentFile = <<>>
  /\ currentContent = <<>>
  /\ parsed = <<>>
  /\ ppc = "loop"
  /\ outDir \in OutDirs
  /\ unwritable \in SUBSET Targets(outDir)
  /\ noDir \in SUBSET (unwritable \ {SentinelPath})
  /\ madeDirs = {}
  /\ createdFiles = <<>>
  /\ disk = {}
  /\ buildResult = NoBuildResult
  /\ PreviewIdle
  /\ OthersIdle

SpecBuild == BuildInit /\ [][ParseNext]_vars

\* ---- the parse loop on any short response: every sequence of up to MaxLines
\* lines, each a header, a blank line, a fence, an end marker, code or prose.
MaxLines == 4

LineKinds ==
  { HeaderLine(1, Paths[2]),
    HeaderLine(4, Paths[1]),
    <<>>,
    <<"FENCE", "js">>,
    <<"FENCE">>,
    <<"===", "END", " ", "FILE", "===">>,
    <<"===", " ", "END", " ", "FILE", " ", "===">>,
    <<"a1">>,
    <<" ", "key", ":", " ", "a2">>,
    HeaderLine(0, Paths[3]) }

RECURSIVE SeqsUpTo(_, _)
SeqsUpTo(S, n) ==
  IF n = 0 THEN {<<>>}
  ELSE LET shorter == SeqsUpTo(S, n - 1)
       IN shorter \cup {Append(q, x) : q \in {t \in shorter : Len(t) = n - 1}, x \in S}

StreamInit ==
  /\ plan \in SeqsUpTo(LineKinds, MaxLines) \ {<<>>}
  /\ lines = TrimLines(plan)
  /\ idx = 1
  /\ currentFile = <<>>
  /\ currentContent = <<>>
  /\ parsed = <<>>
  /\ ppc = "loop"
  /\ outDir = ProjectRoot
  /\ unwritable = {}
  /\ noDir = {}
  /\ madeDirs = {}
  /\ createdFiles = <<>>
  /\ disk = {}
  /\ buildResult = NoBuildResult
  /\ PreviewIdle
  /\ OthersIdle

SpecStream == StreamInit /\ [][ParseNext]_vars

\* ---- execute-build from its call (main.js:1260-1278 and the generation call
\* behind it), in a project that has no src folder: its root is the output
\* directory and the only directory the files of the response can count on.
ExistingDirs == {ProjectRoot}

ExecInit ==
  /\ plan \in BuildPlans \cup {NoPlan}
  /\ lines = <<>>
  /\ idx = 1
  /\ currentFile = <<>>
  /\ currentContent = <<>>
  /\ parsed = <<>>
  /\ ppc = "called"
  /\ outDir = detectProjectStructure("react", FALSE, FALSE)
  /\ unwritable \in SUBSET Targets(outDir)
  /\ noDir \in SUBSET (unwritable \ {SentinelPath})
  /\ madeDirs = {}
  /\ createdFiles = <<>>
  /\ disk = {}
  /\ buildResult = NoBuildResult
  /\ PreviewIdle
  /\ OthersIdle

\* Up to the parse loop: no build plan, no API key, a rejected or non-OK
\* generation call each return a failure; else the response is split in lines.
ExecuteBuild ==
  /\ ppc = "called"
  /\ \E hasKey \in BOOLEAN, outcome \in {200, 500, NETERR} :
       LET error == IF plan = NoPlan THEN "noPlan"
                    ELSE IF ~hasKey THEN "noKey"
                    ELSE IF outcome = NETERR THEN "thrown"
                    ELSE IF ~resOk(outcome) THEN "gemini"
                    ELSE "none"
       IN IF error # "none"
            THEN /\ buildResult' = [success |-> FALSE, files |-> <<>>, error |-> error]
                 /\ ppc' = "returned"
                 /\ UNCHANGED lines
            ELSE /\ lines' = Render(plan)
                 /\ ppc' = "loop"
                 /\ UNCHANGED buildResult
  /\ UNCHANGED <<plan, idx, currentFile, currentContent, parsed, outDir, unwritable,
                 noDir, madeDirs, createdFiles, disk, pvars, xvars>>

ExecNext == ExecuteBuild \/ ParseLine \/ ParseEnd \/ BuildReturn

SpecExec == ExecInit /\ [][ExecNext]_vars

\* ---- saveParsedFile on one path: the paths a response may name
PathPrefixes == { <<>>, <<".">>, <<".", SEP>>, <<".", ".", SEP>>, <<SEP>>,
                  <<BACKSLASH>>, <<".", SEP, ".", ".", SEP>> }
PathBodies == { <<"a.js">>, <<"src", SEP, "a.js">>, <<"componentAI", SEP, "X.jsx">>,
                <<"lib", SEP, "b.css">>,
                <<"lib", SEP, ".", ".", SEP, "b.css">>,
                <<"lib", SEP, ".", ".", SEP, ".", ".", SEP, ".", ".", SEP, "b.css">>,
                <<"componentAI", SEP, ".", ".", SEP, ".", ".", SEP, "X.jsx">> }
PathInputs == {pre \o body : pre \in PathPrefixes, body \in PathBodies}
AllOutDirs == {detectProjectStructure(fw, src, app) :
                 fw \in Frameworks, src \in BOOLEAN, app \in BOOLEAN}

ResolveInit ==
  /\ givenPath \in PathInputs
  /\ resolvedPath = <<>>
  /\ outDir \in AllOutDirs
  /\ plan = NoPlan
  /\ lines = <<>>
  /\ idx = 1
  /\ currentFile = <<>>
  /\ currentContent = <<>>
  /\ parsed = <<>>
  /\ ppc = "idle"
  /\ unwritable = {}
  /\ noDir = {}
  /\ madeDirs = {}
  /\ createdFiles = <<>>
  /\ disk = {}
  /\ buildResult = NoBuildResult
  /\ PreviewIdle
  /\ FetchIdle
  /\ TermIdle
  /\ HostIdle
  /\ RendererIdle

\* saveParsedFile up to the try block.
ResolvePath ==
  /\ givenPath # <<>>
  /\ resolvedPath = <<>>
  /\ resolvedPath' = resolvePath(givenPath, ProjectRoot, outDir)
  /\ UNCHANGED <<givenPath, fvars, tvars, hvars, yvars, pvars, bvars>>

SpecResolve == ResolveInit /\ [][ResolvePath]_vars

\* ---- the generation call of execute-build
FetchInit ==
  /\ fpc = "call"
  /\ retries = RETRIES
  /\ backoff = BACKOFF
  /\ outcomes = <<>>
  /\ waits = <<>>
  /\ genResult = "none"
  /\ ResolveIdle
  /\ BuildIdle
  /\ PreviewIdle
  /\ TermIdle
  /\ HostIdle
  /\ RendererIdle

FetchNext ==
  \/ \E o \in Outcomes : FetchCall(o)
  \/ FetchDelay
  \/ FetchSurface

SpecFetch == FetchInit /\ [][FetchNext]_vars

TermInit ==
  /\ TermIdle
  /\ ResolveIdle
  /\ FetchIdle
  /\ BuildIdle
  /\ PreviewIdle
  /\ HostIdle
  /\ RendererIdle

SpecTerm == TermInit /\ [][TermNext]_vars

\* Init after module load (main.js:76-82), with projA laid out as one of L and
\* projB a project that only has a dev script.
InitWith(L) ==
  /\ fs \in {f \in [Folders -> L \cup {DevOnly}] :
               /\ f["projB"] = DevOnly
               /\ f["projA"] \in L
               /\ ~f["projA"].pkg => f["projA"].scripts = {}}
  /\ previewServer = NULL
  /\ previewPort = NULL
  /\ devProcess = NULL
  /\ devProcessInfo = NullInfo
  /\ servers = <<>>
  /\ procs = <<>>
  /\ portOwner = [p \in ProbedPorts |-> NULL]
  /\ extKilled = FALSE
  /\ reqs = <<>>
  /\ lastResult = NoResult
  /\ BuildIdle
  /\ OthersIdle

\* ------------------------------------------------------------- the handlers
\* ipcMain.handle('start-preview-server') up to its first await on I/O:
\* stopExistingPreviewServer() runs synchronously up to the close callback.
IssueStart(f) ==
  /\ Len(reqs) < MaxReq
  /\ LET new == [DoneReq EXCEPT !.kind = "start", !.folder = f, !.after = lastResult.via,
                   !.sup = IF devProcess # NULL /\ devProcessInfo.cwd # f
                             THEN devProcess ELSE NULL]
     IN IF hasPreviewServer(previewServer)
          THEN /\ servers' = serverClose(previewServer)
               /\ reqs' = Append(reqs, [new EXCEPT !.pc = "closeWait",
                                                   !.waitOn = previewServer])
          ELSE /\ servers' = servers
               /\ reqs' = Append(reqs, [new EXCEPT !.pc = "resolve"])
  /\ UNCHANGED <<bvars, xvars>>
  /\ UNCHANGED <<fs, previewServer, previewPort, devProcess, devProcessInfo, procs,
                 portOwner, extKilled, lastResult>>

\* ipcMain.handle('stop-preview-server'): with a listener it waits for the close
\* callback; with none it runs stopDevProcess and returns without real I/O.
IssueStop ==
  /\ Len(reqs) < MaxReq
  /\ LET r == Len(reqs) + 1
         kills == StopDevProcessKills(devProcess, devProcessInfo)
     IN IF hasPreviewServer(previewServer)
          THEN /\ servers' = serverClose(previewServer)
               /\ reqs' = Append(reqs, [DoneReq EXCEPT !.kind = "stop", !.pc = "closeWait",
                                          !.after = lastResult.via,
                                          !.waitOn = previewServer])
               /\ UNCHANGED <<devProcess, devProcessInfo, procs, extKilled, lastResult>>
          ELSE /\ servers' = servers
               /\ reqs' = Append(reqs, DoneReq)
               /\ procs' = Killed(kills)
               /\ extKilled' = (extKilled \/ EXT \in kills)
               /\ devProcess' = NULL
               /\ devProcessInfo' = NullInfo
               /\ lastResult' = StopResult(r, lastResult.via)
  /\ UNCHANGED <<bvars, xvars>>
  /\ UNCHANGED <<fs, previewServer, previewPort, portOwner>>

\* The 'close' event of listener s: every close callback registered on it runs,
\* and the continuations of the waiting handlers run in the same turn, in the
\* order of their calls: each clears previewServer / previewPort; a
\* stop-preview then runs stopDevProcess and returns, a start-preview goes on
\* to read package.json.
ServerClosed(s) ==
  /\ s \in ServerIds
  /\ servers[s].state = "closing"
  /\ LET W == {r \in ReqIds : reqs[r].pc = "closeWait" /\ reqs[r].waitOn = s}
         SW == {r \in W : reqs[r].kind = "stop"}
         last == CHOOSE r \in SW : \A q \in SW : q <= r
         kills == StopDevProcessKills(devProcess, devProcessInfo)
     IN /\ servers' = [servers EXCEPT ![s].state = "closed"]
        /\ IF W # {}
             THEN /\ previewServer' = clearedPreview.server
                  /\ previewPort' = clearedPreview.port
             ELSE UNCHANGED <<previewServer, previewPort>>
        /\ reqs' = [r \in ReqIds |->
                      IF r \in SW THEN DoneReq
                      ELSE IF r \in W THEN [reqs[r] EXCEPT !.pc = "resolve"]
                      ELSE reqs[r]]
        /\ IF SW # {}
             THEN /\ procs' = Killed(kills)
                  /\ extKilled' = (extKilled \/ EXT \in kills)
                  /\ devProcess' = NULL
                  /\ devProcessInfo' = NullInfo
                  /\ lastResult' = StopResult(last, reqs[last].after)
             ELSE UNCHANGED <<procs, extKilled, devProcess, devProcessInfo, lastResult>>
  /\ UNCHANGED <<bvars, xvars>>
  /\ UNCHANGED <<fs, portOwner>>

Return(r, res) ==
  /\ reqs' = [reqs EXCEPT ![r] = DoneReq]
  /\ lastResult' = res

\* readPackageJson + resolveStaticTarget, and the choice of a strategy
\* (start-preview-server, after await stopExistingPreviewServer()).
StartResolve(r) ==
  /\ r \in ReqIds
  /\ reqs[r].pc = "resolve"
  /\ LET layout == Layout(reqs[r].folder)
         target == resolveStaticTarget(layout.files)
         script == preferredScript(layout)
     IN IF target = NoTarget /\ script # ""
          THEN reqs' = [reqs EXCEPT ![r].script = script,
                          ![r].pc = IF devProcess # NULL /\ devProcessInfo.cwd = reqs[r].folder
                                      THEN "reuseWait" ELSE "detect"]
          ELSE reqs' = [reqs EXCEPT ![r].pc = "getPort",
                          ![r].target = IF target = NoTarget THEN rawRootTarget ELSE target]
  /\ UNCHANGED <<bvars, xvars>>
  /\ UNCHANGED <<fs, previewServer, previewPort, devProcess, devProcessInfo, servers,
                 procs, portOwner, extKilled, lastResult>>

\* waitForDevServer(5000, 500) for the process already supervised for this
\* folder: a probed port answered.
ReuseFound(r) ==
  /\ r \in ReqIds
  /\ reqs[r].pc = "reuseWait"
  /\ findRunningDevServer # NULL
  /\ Return(r, Result(r, "reused", TRUE, findRunningDevServer))
  /\ UNCHANGED <<bvars, xvars>>
  /\ UNCHANGED <<fs, previewServer, previewPort, devProcess, devProcessInfo, servers,
                 procs, portOwner, extKilled>>

\* ... or its deadline passed with no port answering at the last pass.
ReuseTimeout(r) ==
  /\ r \in ReqIds
  /\ reqs[r].pc = "reuseWait"
  /\ findRunningDevServer = NULL
  /\ reqs' = [reqs EXCEPT ![r].pc = "detect"]
  /\ UNCHANGED <<bvars, xvars>>
  /\ UNCHANGED <<fs, previewServer, previewPort, devProcess, devProcessInfo, servers,
                 procs, portOwner, extKilled, lastResult>>

\* findRunningDevServer() found a server on a probed port: it is returned as an
\* external dev server and nothing is recorded.
DetectFound(r) ==
  /\ r \in ReqIds
  /\ reqs[r].pc = "detect"
  /\ findRunningDevServer # NULL
  /\ Return(r, Result(r, "external", TRUE, findRunningDevServer))
  /\ UNCHANGED <<bvars, xvars>>
  /\ UNCHANGED <<fs, previewServer, previewPort, devProcess, devProcessInfo, servers,
                 procs, portOwner, extKilled>>

\* spawnDevProcess (main.js:227-257): the child is recorded, whatever was recorded.
spawnDevProcess(cwd, script) ==
  /\ procs' = Append(procs, [cwd |-> cwd, script |-> script, state |-> "alive"])
  /\ devProcess' = Len(procs) + 1
  /\ devProcessInfo' = [cwd |-> cwd, script |-> script, startedByApp |-> TRUE]

\* No probed port answered: the dev script is spawned and polled for.
DetectSpawn(r) ==
  /\ r \in ReqIds
  /\ reqs[r].pc = "detect"
  /\ findRunningDevServer = NULL
  /\ Len(procs) < MaxProc
  /\ spawnDevProcess(reqs[r].folder, reqs[r].script)
  /\ reqs' = [reqs EXCEPT ![r].pc = "devWait", ![r].proc = Len(procs) + 1]
  /\ UNCHANGED <<bvars, xvars>>
  /\ UNCHANGED <<fs, previewServer, previewPort, servers, portOwner, extKilled, lastResult>>

\* waitForDevServer(): a probed port answered before the 20 s deadline.
DevFound(r) ==
  /\ r \in ReqIds
  /\ reqs[r].pc = "devWait"
  /\ findRunningDevServer # NULL
  /\ Return(r, Result(r, "spawned", TRUE, findRunningDevServer))
  /\ UNCHANGED <<bvars, xvars>>
  /\ UNCHANGED <<fs, previewServer, previewPort, devProcess, devProcessInfo, servers,
                 procs, portOwner, extKilled>>

\* The deadline passed: stopDevProcess(), then the needsRuntime failure.
DevTimeout(r) ==
  /\ r \in ReqIds
  /\ reqs[r].pc = "devWait"
  /\ findRunningDevServer = NULL
  /\ LET kills == StopDevProcessKills(devProcess, devProcessInfo)
     IN /\ procs' = Killed(kills)
        /\ extKilled' = (extKilled \/ EXT \in kills)
  /\ devProcess' = NULL
  /\ devProcessInfo' = NullInfo
  /\ Return(r, [Result(r, "needsRuntime", FALSE, NULL) EXCEPT !.needsRuntime = TRUE])
  /\ UNCHANGED <<bvars, xvars>>
  /\ UNCHANGED <<fs, previewServer, previewPort, servers, portOwner>>

\* getPort resolved; express app, static root, SPA fallback if target.indexPath,
\* app.listen and its callback, which records the listener.
StartListen(r) ==
  /\ r \in ReqIds
  /\ reqs[r].pc = "getPort"
  /\ \E port \in getPort :
       LET t == reqs[r].target
           s == Len(servers) + 1
       IN /\ servers' = Append(servers, [port |-> port, root |-> t.root,
                                         indexPath |-> t.indexPath, state |-> "bound"])
          /\ previewServer' = s
          /\ previewPort' = port
          /\ Return(r, [Result(r, "static", TRUE, port) EXCEPT
                          !.servedFrom = t.root, !.spaFallback = spaFallback(t),
                          !.server = s])
  /\ UNCHANGED <<bvars, xvars>>
  /\ UNCHANGED <<fs, devProcess, devProcessInfo, procs, portOwner, extKilled>>

\* ---------------------------------------------------------- the environment
\* child.on('exit') (main.js:249-254): the handler clears the record, whichever
\* process is recorded.  A process exits on its own or after kill().
ProcExit(p) ==
  /\ p \in ProcIds
  /\ procs[p].state \in {"alive", "killed"}
  /\ procs' = [procs EXCEPT ![p] = ExitedProc]
  /\ portOwner' = [q \in ProbedPorts |-> IF portOwner[q] = p THEN NULL ELSE portOwner[q]]
  /\ devProcess' = NULL
  /\ devProcessInfo' = NullInfo
  /\ UNCHANGED <<bvars, xvars>>
  /\ UNCHANGED <<fs, previewServer, previewPort, servers, extKilled, reqs, lastResult>>

\* The dev server of a live spawned process starts to listen on a probed port.
DevServerUp(p, port) ==
  /\ p \in ProcIds
  /\ procs[p].state = "alive"
  /\ \A q \in ProbedPorts : portOwner[q] # p
  /\ PortFree(port)
  /\ portOwner' = [portOwner EXCEPT ![port] = p]
  /\ UNCHANGED <<bvars, xvars>>
  /\ UNCHANGED <<fs, previewServer, previewPort, devProcess, devProcessInfo, servers,
                 procs, extKilled, reqs, lastResult>>

\* A server the user runs outside this tool starts / stops on a probed port.
ExternalUp(port) ==
  /\ PortFree(port)
  /\ portOwner' = [portOwner EXCEPT ![port] = EXT]
  /\ UNCHANGED <<bvars, xvars>>
  /\ UNCHANGED <<fs, previewServer, previewPort, devProcess, devProcessInfo, servers,
                 procs, extKilled, reqs, lastResult>>

ExternalDown(port) ==
  /\ portOwner[port] = EXT
  /\ portOwner' = [portOwner EXCEPT ![port] = NULL]
  /\ UNCHANGED <<bvars, xvars>>
  /\ UNCHANGED <<fs, previewServer, previewPort, devProcess, devProcessInfo, servers,
                 procs, extKilled, reqs, lastResult>>

\* Requests arrive at any time, also while earlier ones are in flight.
Next ==
  \/ \E f \in Folders : IssueStart(f)
  \/ IssueStop
  \/ \E s \in 1..MaxReq : ServerClosed(s)
  \/ \E r \in 1..MaxReq : StartResolve(r)
  \/ \E r \in 1..MaxReq : ReuseFound(r)
  \/ \E r \in 1..MaxReq : ReuseTimeout(r)
  \/ \E r \in 1..MaxReq : DetectFound(r)
  \/ \E r \in 1..MaxReq : DetectSpawn(r)
  \/ \E r \in 1..MaxReq : DevFound(r)
  \/ \E r \in 1..MaxReq : DevTimeout(r)
  \/ \E r \in 1..MaxReq : StartListen(r)
  \/ \E p \in 1..MaxProc : ProcExit(p)
  \/ \E p \in 1..MaxProc, port \in ProbedPorts : DevServerUp(p, port)
  \/ \E port \in ProbedPorts : ExternalUp(port)
  \/ \E port \in ProbedPorts : ExternalDown(port)

PreviewInit == InitWith(CoreLayouts)

Spec == PreviewInit /\ [][Next]_vars

\* The renderer issues one request at a time: the next one only after the
\* response to the previous one arrived.
NextSeq ==
  \/ Idle /\ \E f \in Folders : IssueStart(f)
  \/ Idle /\ IssueStop
  \/ \E s \in 1..MaxReq : ServerClosed(s)
  \/ \E r \in 1..MaxReq : StartResolve(r)
  \/ \E r \in 1..MaxReq : ReuseFound(r)
  \/ \E r \in 1..MaxReq : ReuseTimeout(r)
  \/ \E r \in 1..MaxReq : DetectFound(r)
  \/ \E r \in 1..MaxReq : DetectSpawn(r)
  \/ \E r \in 1..MaxReq : DevFound(r)
  \/ \E r \in 1..MaxReq : DevTimeout(r)
  \/ \E r \in 1..MaxReq : StartListen(r)
  \/ \E p \in 1..MaxProc : ProcExit(p)
  \/ \E p \in 1..MaxProc, port \in ProbedPorts : DevServerUp(p, port)
  \/ \E port \in ProbedPorts : ExternalUp(port)
  \/ \E port \in ProbedPorts : ExternalDown(port)

PreviewInitAll == InitWith(Layouts)

SpecSeq == PreviewInitAll /\ [][NextSeq]_vars

\* ---- the terminal pane and the version history of the renderer, from mount
RendererInit ==
  /\ PreviewIdle
  /\ BuildIdle
  /\ ResolveIdle
  /\ FetchIdle
  /\ TermIdle
  /\ HostIdle
  /\ RendererIdle

SpecPane == RendererInit /\ [][PaneNext]_vars

SpecHistory == RendererInit /\ [][HistoryNext]_vars

\* ---- the waits of start-preview in the detail of their probes, next to the
\* handlers, where a wait is one step that takes its outcome.  The event loop
\* runs every callback and continuation that is ready, so the steps of the
\* waits and of the handlers are weakly fair; requests and the environment
\* are not.
MaxVaried == 2

WaitKinds ==
  {k \in [1..Len(COMMON_DEV_PORTS) -> PortKinds] :
     \A i \in 1..Len(COMMON_DEV_PORTS) : i > MaxVaried => k[i] \in {"refused", "silent"}}

LiveInit ==
  \/ PreviewInit
  \/ /\ fs = [f \in Folders |-> DevOnly]
     /\ previewServer = NULL
     /\ previewPort = NULL
     /\ devProcess = NULL
     /\ devProcessInfo = NullInfo
     /\ servers = <<>>
     /\ procs = <<>>
     /\ portOwner = [p \in ProbedPorts |-> NULL]
     /\ extKilled = FALSE
     /\ reqs = <<>>
     /\ lastResult = NoResult
     /\ BuildIdle /\ ResolveIdle /\ FetchIdle /\ TermIdle /\ HostIdle
     /\ PaneIdle /\ HistoryIdle
     /\ \E w \in {<<"check", WAIT_TIMEOUT, WAIT_INTERVAL>>,
                  <<"check", REUSE_TIMEOUT, REUSE_INTERVAL>>,
                  <<"pass", NULL, NULL>>} :
          wpc = w[1] /\ deadline = w[2] /\ intervalMs = w[3]
     /\ now = 0
     /\ portIdx = 1
     /\ probe = NoProbe
     /\ portKind \in WaitKinds

HandlerSteps ==
  \/ \E s \in 1..MaxReq : ServerClosed(s)
  \/ \E r \in 1..MaxReq : StartResolve(r)
  \/ \E r \in 1..MaxReq : ReuseFound(r)
  \/ \E r \in 1..MaxReq : ReuseTimeout(r)
  \/ \E r \in 1..MaxReq : DetectFound(r)
  \/ \E r \in 1..MaxReq : DetectSpawn(r)
  \/ \E r \in 1..MaxReq : DevFound(r)
  \/ \E r \in 1..MaxReq : DevTimeout(r)
  \/ \E r \in 1..MaxReq : StartListen(r)

LiveNext ==
  \/ WaitCheck
  \/ PassNext
  \/ ProbeResponse
  \/ ProbeError
  \/ ProbeTimeout
  \/ PassResult
  \/ WaitDelay
  \/ \E i \in 1..MaxVaried : PortComesUp(i)
  \/ \E f \in Folders : wpc = "idle" /\ IssueStart(f)
  \/ wpc = "idle" /\ IssueStop
  \/ \E s \in 1..MaxReq : ServerClosed(s)
  \/ \E r \in 1..MaxReq : StartResolve(r)
  \/ \E r \in 1..MaxReq : ReuseFound(r)
  \/ \E r \in 1..MaxReq : ReuseTimeout(r)
  \/ \E r \in 1..MaxReq : DetectFound(r)
  \/ \E r \in 1..MaxReq : DetectSpawn(r)
  \/ \E r \in 1..MaxReq : DevFound(r)
  \/ \E r \in 1..MaxReq : DevTimeout(r)
  \/ \E r \in 1..MaxReq : StartListen(r)
  \/ \E p \in 1..MaxProc : wpc = "idle" /\ ProcExit(p)
  \/ \E p \in 1..MaxProc, port \in ProbedPorts : DevServerUp(p, port)
  \/ \E port \in ProbedPorts : wpc = "idle" /\ ExternalUp(port)
  \/ \E port \in ProbedPorts : ExternalDown(port)

SpecLive ==
  /\ LiveInit
  /\ [][LiveNext]_vars
  /\ WF_vars(WaitSteps)
  /\ WF_vars(HandlerSteps)

\* ---- start-preview when the dev script cannot be spawned
\* spawn() throws inside spawnDevProcess, before anything is recorded; the
\* catch of start-preview-server returns the failure.
DetectSpawnThrows(r) ==
  /\ r \in ReqIds
  /\ reqs[r].pc = "detect"
  /\ findRunningDevServer = NULL
  /\ Return(r, Result(r, "spawnThrew", FALSE, NULL))
  /\ UNCHANGED <<bvars, xvars>>
  /\ UNCHANGED <<fs, previewServer, previewPort, devProcess, devProcessInfo, servers,
                 procs, portOwner, extKilled>>

\* spawn() returns a child that never starts and will emit 'error':
\* spawnDevProcess records it like any other and the handler polls for it.
DetectSpawnError(r) ==
  /\ r \in ReqIds
  /\ reqs[r].pc = "detect"
  /\ findRunningDevServer = NULL
  /\ Len(procs) < MaxProc
  /\ procs' = Append(procs, [cwd |-> reqs[r].folder, script |-> reqs[r].script,
                              state |-> "failed"])
  /\ devProcess' = Len(procs) + 1
  /\ devProcessInfo' = [cwd |-> reqs[r].folder, script |-> reqs[r].script,
                         startedByApp |-> TRUE]
  /\ reqs' = [reqs EXCEPT ![r].pc = "devWait", ![r].proc = Len(procs) + 1]
  /\ UNCHANGED <<bvars, xvars>>
  /\ UNCHANGED <<fs, previewServer, previewPort, servers, portOwner, extKilled, lastResult>>

\* The 'error' event of such a child: spawnDevProcess attached listeners for
\* stdout, stderr and 'exit' only, so the event is thrown as an uncaught
\* exception of the main process; the record is not touched.
ProcError(p) ==
  /\ p \in ProcIds
  /\ procs[p].state = "failed"
  /\ procs' = [procs EXCEPT ![p].state = "errored"]
  /\ uncaught' = TRUE
  /\ UNCHANGED <<bvars, rvars, fvars, tvars, yvars>>
  /\ UNCHANGED <<fs, previewServer, previewPort, devProcess, devProcessInfo, servers,
                 portOwner, extKilled, reqs, lastResult>>

NextSpawn ==
  \/ Idle /\ \E f \in Folders : IssueStart(f)
  \/ Idle /\ IssueStop
  \/ \E s \in 1..MaxReq : ServerClosed(s)
  \/ \E r \in 1..MaxReq : StartResolve(r)
  \/ \E r \in 1..MaxReq : ReuseFound(r)
  \/ \E r \in 1..MaxReq : ReuseTimeout(r)
  \/ \E r \in 1..MaxReq : DetectFound(r)
  \/ \E r \in 1..MaxReq : DetectSpawn(r)
  \/ \E r \in 1..MaxReq : DetectSpawnThrows(r)
  \/ \E r \in 1..MaxReq : DetectSpawnError(r)
  \/ \E r \in 1..MaxReq : DevFound(r)
  \/ \E r \in 1..MaxReq : DevTimeout(r)
  \/ \E r \in 1..MaxReq : StartListen(r)
  \/ \E p \in 1..MaxProc : ProcExit(p)
  \/ \E p \in 1..MaxProc : ProcError(p)
  \/ \E p \in 1..MaxProc, port \in ProbedPorts : DevServerUp(p, port)
  \/ \E port \in ProbedPorts : ExternalUp(port)
  \/ \E port \in ProbedPorts : ExternalDown(port)

SpecSpawn == PreviewInit /\ [][NextSpawn]_vars

\* ================================================================== claims
StartVias == {"static", "reused", "external", "spawned", "needsRuntime"}

\* C1: under any interleaving of start-preview and stop-preview requests at
\* most one preview listener is bound at any time, and every bound listener
\* is the one previewServer references.
C1_OneListenerBound ==
  /\ Cardinality(BoundServers) <= 1
  /\ \A s \in BoundServers : previewServer = s

\* C2: a start-preview for another project root than the one the supervised
\* dev process was spawned for proceeds (reads the project, probes ports,
\* spawns, binds) only after the previous session is torn down: its listener
\* closed and the dev process this tool spawned killed.
C2_TornDownBeforeProceeding ==
  \A r \in ReqIds :
    (reqs[r].kind = "start" /\ reqs[r].pc \notin {"closeWait", "done"}) =>
      /\ reqs[r].waitOn # NULL => servers[reqs[r].waitOn].state = "closed"
      /\ reqs[r].sup # NULL => procs[reqs[r].sup].state # "alive"

\* C3: at every moment every live dev process spawned by this tool is the one
\* recorded in devProcess / devProcessInfo with startedByApp = true (so there is
\* at most one, and stop-preview kills it).
C3_LiveProcessIsRecorded ==
  \A p \in AliveProcs : devProcess = p /\ devProcessInfo.startedByApp

\* C4: kill() is only ever aimed at a dev process this tool spawned itself:
\* never at a server that was detected on a probed port, and whatever is recorded
\* as killable is a child of spawnDevProcess with startedByApp = true.
C4_KillsOnlyOwnProcesses ==
  /\ ~extKilled
  /\ devProcess # NULL => devProcess \in ProcIds /\ devProcessInfo.startedByApp
  /\ \A p \in ProcIds : procs[p].state = "killed" => devProcess # p

\* C4 witness: stop-preview returned right after a start-preview that had
\* detected an external dev server, and that server is still listening.
C4_Witness ==
  /\ lastResult.kind = "stop"
  /\ lastResult.after = "external"
  /\ \E q \in ProbedPorts : portOwner[q] = EXT

\* C5: stop-preview called with nothing running, or twice in a row, returns
\* success, and once it has returned no listener is bound and previewServer,
\* previewPort, devProcess and devProcessInfo are all null.
C5_StopIdempotent ==
  (Idle /\ lastResult.kind = "stop") =>
    /\ lastResult.success
    /\ previewServer = NULL /\ previewPort = NULL
    /\ devProcess = NULL /\ devProcessInfo = NullInfo
    /\ BoundServers = {}

\* C5 witness: the second of two stop-preview calls in a row has returned.
C5_Witness ==
  /\ Idle
  /\ lastResult.kind = "stop"
  /\ lastResult.after = "stopped"

C7_BareRootNoFallback ==
  (lastResult.kind = "start" /\ lastResult.success
     /\ Layout(lastResult.folder).files = {"index.html"}) =>
    /\ ~lastResult.spaFallback
    /\ (lastResult.via = "static" /\ servers[lastResult.server].state = "bound") =>
         HandleRequest(servers[lastResult.server], "GET", "html", FALSE) # "index"

FirstHitRoot(files) ==
  IF "dist/index.html" \in files THEN "dist"
  ELSE IF "build/index.html" \in files THEN "build"
  ELSE IF "public/index.html" \in files THEN "public"
  ELSE "."

\* C8: for every layout with dist/index.html, whatever else exists, start-preview
\* succeeds serving dist with SPA fallback (an unmatched GET of an HTML-accepting
\* client gets the index); among dist, build, public and the root index.html the
\* first that exists is served.
C8_DistServedWithFallback ==
  lastResult.kind = "start" =>
    LET files == Layout(lastResult.folder).files IN
    /\ files # {} =>
         /\ lastResult.success /\ lastResult.via = "static"
         /\ lastResult.servedFrom = FirstHitRoot(files)
    /\ "dist/index.html" \in files =>
         /\ lastResult.servedFrom = "dist"
         /\ lastResult.spaFallback
         /\ servers[lastResult.server].state = "bound" =>
              /\ servers[lastResult.server].root = "dist"
              /\ HandleRequest(servers[lastResult.server], "GET", "html", FALSE) = "index"
              /\ HandleRequest(servers[lastResult.server], "GET", "html", TRUE) = "static"

\* C8 witness: dist served although build/, a root index.html and a package.json
\* with dev and start scripts exist too.
C8_Witness ==
  /\ lastResult.kind = "start" /\ lastResult.via = "static"
  /\ {"dist/index.html", "build/index.html", "index.html"} \subseteq Layout(lastResult.folder).files
  /\ Layout(lastResult.folder).scripts = {"dev", "start"}
  /\ servers[lastResult.server].state = "bound"

\* C9: when the spawned dev script brought up no probed port before the
\* deadline, start-preview returns the needsRuntime failure, the process it
\* started is not left alive, no supervised process is recorded and no listener
\* is bound.
C9_TimeoutCleansUp ==
  (Idle /\ lastResult.via = "needsRuntime") =>
    /\ lastResult.needsRuntime /\ ~lastResult.success
    /\ procs[lastResult.proc].state # "alive"
    /\ devProcess = NULL /\ devProcessInfo = NullInfo
    /\ BoundServers = {}

\* The files a plan holds: each path with the code lines composed for it.
Expected(p) == [k \in 1..3 |-> [path |-> Paths[k], content |-> Code(k, p[k].len)]]

\* C10: for a response of three files, each introduced by a different header
\* dialect, in any order and whatever closes them, the parser hands on exactly
\* three (path, content) pairs in response order, each path with its own lines.
C10_ThreeDialectsThreeFiles ==
  ppc = "done" => parsed = Expected(plan)

\* C10 witness: a parsed response whose files use the bold, the ### and the
\* plain dialect, in that order, one of them closed only by the next header.
C10_Witness ==
  /\ ppc = "done"
  /\ plan[1].dialect = 3 /\ plan[2].dialect = 2 /\ plan[3].dialect = 4
  /\ plan[1].wrap = "bare" /\ plan[2].wrap = "fenced" /\ plan[3].wrap = "bare"
  /\ Len(parsed) = 3

NoHeader == \A k \in 1..Len(lines) : matchHeader(lines[k]) = <<>>

\* C11: when the response holds no recognizable header, execute-build returns
\* the failure naming build-output.txt and that file holds the response; and
\* whenever it has returned, either files were written or the sentinel holds
\* the response.
C11_SentinelOrFiles ==
  ppc = "returned" =>
    /\ NoHeader =>
         /\ ~buildResult.success /\ buildResult.error = "sentinel"
         /\ [path |-> SentinelPath, content |-> lines] \in disk
    /\ createdFiles # <<>> \/ [path |-> SentinelPath, content |-> lines] \in disk

\* The parsed files whose target can be written, as full paths in parse order.
RECURSIVE Writable(_)
Writable(ps) ==
  IF ps = <<>> THEN <<>>
  ELSE LET full == resolvePath(ps[1].path, ProjectRoot, outDir)
       IN (IF full \in unwritable THEN <<>> ELSE <<full>>) \o Writable(From(ps, 2))

\* C13: a failing mkdir / writeFile of one parsed file only loses that file:
\* the manifest holds exactly the files whose write went through, in parse
\* order, each is on disk with its content, and execute-build reports success
\* as soon as one file was written.
C13_WriteFailureContained ==
  ppc = "returned" =>
    /\ createdFiles = Writable(parsed)
    /\ \A k \in 1..Len(parsed) :
         LET full == resolvePath(parsed[k].path, ProjectRoot, outDir) IN
         full \notin unwritable => [path |-> full, content |-> parsed[k].content] \in disk
    /\ \A e \in disk : e.path \notin unwritable
    /\ buildResult.success <=> createdFiles # <<>>
    /\ buildResult.success => buildResult.files = createdFiles

\* C13 witness: three files parsed, the write of the second failed, the other
\* two are in the manifest and success is reported.
C13_Witness ==
  /\ ppc = "returned"
  /\ Len(parsed) = 3
  /\ resolvePath(parsed[2].path, ProjectRoot, outDir) \in unwritable
  /\ Len(createdFiles) = 2
  /\ buildResult.success

\* A path without its leading ./ and ../ segments and separators.
RECURSIVE StripLeading(_)
StripLeading(p) ==
  IF p # <<>> /\ p[1] \in {SEP, BACKSLASH} THEN StripLeading(From(p, 2))
  ELSE IF Len(p) >= 2 /\ p[1] = "." /\ p[2] \in {SEP, BACKSLASH} THEN StripLeading(From(p, 3))
  ELSE IF Len(p) >= 3 /\ p[1] = "." /\ p[2] = "." /\ p[3] \in {SEP, BACKSLASH}
    THEN StripLeading(From(p, 4))
  ELSE p

\* C12: an absolute path is used unchanged; a path starting with componentAI/
\* is rooted at the project root; any other path loses its leading ./, ../ and
\* separators and is rooted under the detected output directory, or at the
\* project root when it starts with src/ and the output directory ends in src.
C12_PathResolution ==
  resolvedPath # <<>> =>
    resolvedPath =
      IF isAbsolute(givenPath) THEN givenPath
      ELSE IF startsWithDir(givenPath, "componentAI")
        THEN pathJoin(ProjectRoot, givenPath)
      ELSE LET q == StripLeading(givenPath) IN
           IF startsWithDir(q, "src") /\ endsWithSrc(outDir)
             THEN pathJoin(ProjectRoot, q)
             ELSE pathJoin(outDir, q)

FetchDone == fpc \in {"returned", "thrown"}

\* C14: fetchWithRetry makes at most 1 + 3 calls; the k-th wait is
\* 1000 * 2^(k-1) ms and follows a 503 or a network error; 503, 503, 503, 200
\* gives three retries and the 200 response; with the budget used up the last
\* 503 response is returned, the last network error thrown.
C14_RetryBudgetAndBackoff ==
  /\ Len(outcomes) <= 1 + RETRIES
  /\ Len(waits) = RETRIES - retries
  /\ \A k \in 1..Len(waits) :
       /\ waits[k] = BACKOFF * 2 ^ (k - 1)
       /\ outcomes[k] \in {503, NETERR}
       /\ k > 1 => waits[k] > waits[k - 1]
  /\ FetchDone =>
       /\ Len(waits) = Len(outcomes) - 1
       /\ outcomes = <<503, 503, 503, 200>> => fpc = "returned" /\ genResult # "error"
       /\ fpc = "thrown" <=> outcomes[Len(outcomes)] = NETERR
       /\ outcomes[Len(outcomes)] \in {503, NETERR} => Len(outcomes) = 1 + RETRIES

\* C14 witness: three 503 responses, then the 200 response was returned.
C14_Witness ==
  /\ fpc = "returned"
  /\ outcomes = <<503, 503, 503, 200>>
  /\ waits = <<1000, 2000, 4000>>

\* C15: an HTTP 5xx response or a network failure of the generation call is
\* surfaced to the caller of execute-build only after the retry budget was
\* used up.
C15_Every5xxRetried ==
  (genResult = "error"
     /\ outcomes[Len(outcomes)] \in {500, 502, 503, 504, NETERR}) =>
    Len(outcomes) = 1 + RETRIES

SessionIds == {ptys[p].id : p \in PtyIds}

\* C16: terminal ids are handed out strictly increasing and never twice, an
\* entry of the registry always belongs to the session created under its id,
\* and a handler or callback for one id leaves the entries and the messages of
\* every other id as they were.
C16_IdsNeverReused ==
  /\ [](/\ \A p, q \in PtyIds : p < q => ptys[p].id < ptys[q].id
        /\ \A i \in SessionIds : i < nextTerminalId
        /\ \A i \in TermIds : terminals[i] # NULL =>
             terminals[i] \in PtyIds /\ ptys[terminals[i]].id = i)
  /\ [][ \A j \in TermIds : j # lastOp'.id =>
           /\ terminals'[j] = terminals[j]
           /\ notes'[j] = notes[j]
           /\ \A p \in PtyIds : ptys[p].id = j => ptys'[p] = ptys[p] ]_vars

\* C16 witness: the exit callback of a disposed session ran while a later
\* session was registered.
C16_Witness ==
  /\ lastOp = Op("exit", 1, "sent")
  /\ ptys[1].killed
  /\ terminals[2] # NULL

\* C17: for every session terminal-exit is sent at most once, exactly once
\* when its pty has ended (by itself, after terminal-dispose, or both), and no
\* terminal-data follows it.
C17_ExitExactlyOnce ==
  /\ \A i \in TermIds :
       /\ Count(notes[i], "exit") <= 1
       /\ Count(notes[i], "exit") = 1 => notes[i][Len(notes[i])] = "exit"
  /\ \A p \in PtyIds :
       ptys[p].state = "exited" <=> Count(notes[ptys[p].id], "exit") = 1

\* C17 witness: a session that sent data was disposed and then its pty ended.
C17_Witness ==
  \E p \in PtyIds :
    /\ ptys[p].killed /\ ptys[p].state = "exited"
    /\ notes[ptys[p].id] = <<"data", "exit">>

\* C18: once terminal-create has returned an id the session is registered
\* with its callbacks wired, so a write for it is forwarded even before any
\* data arrived; an entry only ever points at a running pty that was not
\* disposed, and a write is forwarded exactly when its id has an entry.
C18_WriteOnlyWhileRegistered ==
  /\ [](/\ lastOp.op = "create" => terminals[lastOp.id] # NULL
        /\ \A i \in TermIds : terminals[i] # NULL =>
             /\ terminals[i] \in PtyIds
             /\ ptys[terminals[i]].state = "running" /\ ~ptys[terminals[i]].killed)
  /\ [][ lastOp'.op = "write" =>
           /\ lastOp'.effect = "forwarded" <=> terminals[lastOp'.id] # NULL
           /\ lastOp'.effect = "forwarded" =>
                LET p == terminals[lastOp'.id] IN
                /\ ptys[p].id = lastOp'.id
                /\ ptys'[p].input = ptys[p].input + 1
           /\ lastOp'.effect # "forwarded" => ptys' = ptys ]_vars

\* C18 witness: a write was forwarded to a session that had sent no data yet.
C18_Witness ==
  /\ lastOp.op = "write" /\ lastOp.effect = "forwarded"
  /\ notes[lastOp.id] = <<>>
  /\ ptys[terminals[lastOp.id]].input = 1

\* C19: terminal-write, terminal-resize and terminal-dispose for an id without
\* an entry (never allocated, exited or disposed) are dropped: registry, ptys
\* and messages stay as they were; a failing resize is caught.
C19_UnknownIdIgnored ==
  /\ [](lastOp.op = "resize" => lastOp.effect \in {"dropped", "caught", "resized"})
  /\ [][ (lastOp'.op \in {"write", "resize", "dispose"} /\ terminals[lastOp'.id] = NULL) =>
           /\ lastOp'.effect = "dropped"
           /\ terminals' = terminals /\ ptys' = ptys /\ notes' = notes
           /\ nextTerminalId' = nextTerminalId ]_vars

\* C19 witness: the second terminal-dispose of a session was dropped while
\* another session is registered.
C19_Witness ==
  /\ lastOp.op = "dispose" /\ lastOp.effect = "dropped"
  /\ \E p \in PtyIds : ptys[p].id = lastOp.id /\ ptys[p].killed
  /\ \E i \in TermIds : terminals[i] # NULL

NeverStarted == {p \in ProcIds : procs[p].state \in {"failed", "errored"}}

\* C20: when the dev script cannot be spawned, the start-preview request that
\* tried returns success = false, no error goes uncaught in the main process,
\* and once the request has returned the child that never started is not
\* recorded as the supervised process.
C20_SpawnFailureContained ==
  /\ ~uncaught
  /\ lastResult.via = "spawnThrew" => ~lastResult.success
  /\ (lastResult.kind = "start" /\ lastResult.proc \in NeverStarted) => ~lastResult.success
  /\ Idle => devProcess \notin NeverStarted

\* C21: every port probe settles: an error or the 800 ms timeout resolves it
\* with ok = false and it never stays pending; every wait (the reuse wait, the
\* lone probe pass, the readiness poll) ends with its result; and every
\* request in flight eventually returns its response.
C21_ProbesSettleAndStartsReturn ==
  /\ (probe.state = "pending") ~> (probe.state = "resolved")
  /\ [](probe.by \in {"error", "timeout"} => probe.state = "resolved" /\ ~probe.ok)
  /\ (wpc # "idle") ~> (wpc \in {"found", "timedOut", "none"})
  /\ [](wpc = "timedOut" => now >= deadline /\ now < deadline + intervalMs
                                   + Len(COMMON_DEV_PORTS) * PING_TIMEOUT)
  /\ \A r \in 1..MaxReq :
       (r \in ReqIds /\ reqs[r].pc # "done") ~> (r \in ReqIds /\ reqs[r].pc = "done")

\* The readiness poll is through a probe that nothing answered: the timeout
\* resolved it with ok = false.
C21_Witness ==
  /\ deadline = WAIT_TIMEOUT
  /\ probe.state = "resolved"
  /\ probe.by = "timeout"
  /\ ~probe.ok
  /\ now > PING_TIMEOUT

\* A stop-preview that came after start-preview r has returned, and the process
\* r spawned and still waits for has been sent its kill.
StoppedWhileWaiting(r) ==
  /\ r \in ReqIds
  /\ reqs[r].pc = "devWait"
  /\ lastResult.kind = "stop"
  /\ lastResult.id > r
  /\ procs[reqs[r].proc].state = "killed"

\* C22: a start-preview whose spawned dev process a later stop-preview tore
\* down while the start was waiting for it does not return success, and once
\* both have returned no listener is bound and no spawned process is alive.
C22_StopCancelsWait ==
  [][\A r \in 1..MaxReq :
       (StoppedWhileWaiting(r) /\ reqs'[r].pc = "done") =>
         /\ ~lastResult'.success
         /\ Idle' => (BoundServers' = {} /\ AliveProcs' = {})]_vars

\* C23: when the response ends while a file is open, that file is handed to
\* saveParsedFile as the last file, with whatever content it has, as a file
\* closed by a header is.
C23_OpenFileFlushedAtEnd ==
  (ppc \in {"done", "returned"} /\ currentFile # <<>>) =>
    /\ parsed # <<>>
    /\ parsed[Len(parsed)] = [path |-> currentFile,
                              content |-> stripCodeFences(currentContent)]

\* What the parser hands on when it flushes the open file.
Flushed == [path |-> currentFile, content |-> stripCodeFences(currentContent)]

\* The lines after position i that the look-ahead passes over.
Skipped(i, j) ==
  /\ j > i /\ j <= Len(lines) + 1
  /\ \A k \in (i + 1)..(j - 1) : Trim(lines[k]) = <<>> \/ Trim(lines[k])[1] = "FENCE"
  /\ j <= Len(lines) => (Trim(lines[j]) # <<>> /\ Trim(lines[j])[1] # "FENCE")

IsFooterLine(line) ==
  \/ Trim(line) = <<"===", "END", " ", "FILE", "===">>
  \/ Trim(line) = <<"===", " ", "END", " ", "FILE", " ", "===">>
  \/ Trim(line) = <<"FENCE">>

\* C24: the parser is a machine of two states over the lines.  A header
\* flushes the open file, if any, opens the new one with no content and has the
\* look-ahead pass over the blank and fence lines behind it; with a file open
\* a footer flushes and closes it and any other line is appended to it; with
\* no file open a line that is no header changes nothing.
C24_TwoStateParser ==
  [][(ppc = "loop" /\ idx <= Len(lines)) =>
       LET line == lines[idx]
           open == currentFile # <<>>
       IN IF matchHeader(line) # <<>>
            THEN /\ parsed' = IF open THEN Append(parsed, Flushed) ELSE parsed
                 /\ currentFile' = matchHeader(line)
                 /\ currentContent' = <<>>
                 /\ Skipped(idx, idx')
            ELSE IF open /\ IsFooterLine(line)
              THEN /\ parsed' = Append(parsed, Flushed)
                   /\ currentFile' = <<>>
                   /\ currentContent' = <<>>
                   /\ idx' = idx + 1
            ELSE IF open
              THEN /\ parsed' = parsed
                   /\ currentFile' = currentFile
                   /\ currentContent' = Append(currentContent, line)
                   /\ idx' = idx + 1
            ELSE /\ parsed' = parsed
                 /\ currentFile' = <<>>
                 /\ currentContent' = <<>>
                 /\ idx' = idx + 1]_vars

\* A response of four lines went through all of it: prose before any header
\* was dropped, a header opened a file, a fence behind it was passed over, and
\* the next header flushed the file with no content.
C24_Witness ==
  /\ ppc = "done"
  /\ Len(lines) = 4
  /\ matchHeader(lines[1]) = <<>>
  /\ matchHeader(lines[2]) # <<>>
  /\ lines[3] = <<"FENCE", "js">>
  /\ matchHeader(lines[4]) # <<>>
  /\ parsed = <<[path |-> matchHeader(lines[2]), content |-> <<>>]>>
  /\ currentFile = matchHeader(lines[4])

\* C25: when execute-build has failed, the project holds no file but
\* build-output.txt and no directory that was not there before; and when it
\* failed before the parse loop (no build plan, no API key, non-OK generation
\* response) nothing was written at all.
C25_TotalFailureLeavesOnlySentinel ==
  (ppc = "returned" /\ ~buildResult.success) =>
    /\ \A e \in disk : e.path = SentinelPath
    /\ madeDirs \subseteq ExistingDirs
    /\ buildResult.error \in {"noPlan", "noKey", "gemini"} => (disk = {} /\ madeDirs = {})

\* The strategy a folder calls for, read off its layout.
HasStatic(f) == Layout(f).files # {}
HasScript(f) == Layout(f).pkg /\ Layout(f).scripts # {}
WantedScript(f) == IF "dev" \in Layout(f).scripts THEN "dev" ELSE "start"

\* C26: start-preview takes its strategies in strict order.  With a static
\* target it serves it and neither probes nor spawns.  Else, with a dev or
\* start script (dev first), it waits for the process supervised for exactly
\* this folder if there is one, then takes a server answering on the probed
\* ports if there is one, and only else spawns the script.  With neither it
\* serves the raw folder, with no SPA fallback, and succeeds.
C26_StrictPriority ==
  /\ [](\A r \in 1..MaxReq : (r \in ReqIds /\ reqs[r].kind = "start") =>
          LET f == reqs[r].folder IN
          /\ reqs[r].pc \in {"reuseWait", "detect", "devWait"} =>
               (~HasStatic(f) /\ HasScript(f) /\ reqs[r].script = WantedScript(f))
          /\ reqs[r].pc = "getPort" => (HasStatic(f) \/ ~HasScript(f))
          /\ (reqs[r].pc = "getPort" /\ ~HasStatic(f)) =>
               (reqs[r].target.root = "." /\ reqs[r].target.indexPath = ""))
  /\ [][\A r \in 1..MaxReq : (r \in ReqIds /\ reqs[r].kind = "start") =>
          LET f == reqs[r].folder
              supervised == devProcess # NULL /\ devProcessInfo.cwd = f
              answering == \E i \in 1..Len(COMMON_DEV_PORTS) : pingPort(COMMON_DEV_PORTS[i])
          IN
          /\ (reqs[r].pc = "resolve" /\ reqs'[r].pc # "resolve" /\ ~HasStatic(f) /\ HasScript(f)) =>
               reqs'[r].pc = IF supervised THEN "reuseWait" ELSE "detect"
          /\ (reqs[r].pc = "reuseWait" /\ reqs'[r].pc # "reuseWait") =>
               \/ reqs'[r].pc = "done" /\ lastResult'.via = "reused" /\ lastResult'.success
               \/ reqs'[r].pc = "detect"
          /\ (reqs[r].pc = "detect" /\ reqs'[r].pc # "detect") =>
               IF answering
                 THEN /\ reqs'[r].pc = "done"
                      /\ lastResult'.via = "external" /\ lastResult'.success
                      /\ procs' = procs
                 ELSE /\ reqs'[r].pc = "devWait"
                      /\ Len(procs') = Len(procs) + 1
                      /\ procs'[Len(procs')] =
                           [cwd |-> f, script |-> WantedScript(f), state |-> "alive"]
          /\ reqs[r].pc \in {"closeWait", "resolve", "getPort"} => Len(procs') = Len(procs)]_vars
  /\ [](lastResult.kind = "start" =>
          LET f == lastResult.folder IN
          /\ HasStatic(f) =>
               (lastResult.via = "static" /\ lastResult.success /\ lastResult.proc = NULL)
          /\ (~HasStatic(f) /\ ~HasScript(f)) =>
               /\ lastResult.via = "static" /\ lastResult.success
               /\ lastResult.servedFrom = "." /\ ~lastResult.spaFallback
               /\ lastResult.proc = NULL
          /\ (~HasStatic(f) /\ HasScript(f)) =>
               lastResult.via \in {"reused", "external", "spawned", "needsRuntime"})

\* A folder with both scripts and no static target: no probed port answered,
\* the dev script was spawned and a second start-preview for the folder
\* came back with the supervised process reused.
C26_Witness ==
  /\ Idle
  /\ lastResult.kind = "start" /\ lastResult.via = "reused"
  /\ Layout(lastResult.folder).scripts = {"dev", "start"}
  /\ Len(procs) = 1
  /\ devProcess = 1 /\ devProcessInfo.script = "dev"

\* C27: when start-preview returns a server it found as an external dev server,
\* the server at that port was not started by this tool: the port is held by
\* no process this tool spawned and by no listener of its own.
C27_ExternalIsNotOurs ==
  [][(lastResult' # lastResult /\ lastResult'.via = "external") =>
       /\ portOwner[lastResult'.url] = EXT
       /\ \A s \in BoundServers : servers[s].port # lastResult'.url]_vars

\* A full path lies inside the project folder.
InsideProject(p) ==
  /\ Len(p) > Len(ProjectRoot) + 1
  /\ SubSeq(p, 1, Len(ProjectRoot)) = ProjectRoot
  /\ p[Len(ProjectRoot) + 1] = SEP

\* C28: every parsed path that is not absolute resolves to a location inside
\* the project folder, .. segments or not.
C28_RelativeStaysInside ==
  (resolvedPath # <<>> /\ ~isAbsolute(givenPath)) => InsideProject(resolvedPath)

\* C29: the id the pane holds is never that of a session an earlier,
\* cleaned-up effect asked for; and once nothing is in flight, a session is
\* registered only if the pane is open and it is the one the pane holds.
C29_PaneDisposesItsSessions ==
  /\ terminalIdRef # NULL => (isOpen /\ refCall = started)
  /\ (ipc = <<>> /\ replies = <<>>) =>
       \A id \in TermIds : terminals[id] # NULL => (isOpen /\ id = terminalIdRef)

\* C30: currentIndex always names a version, and right after addVersion the
\* new version is the current one and nothing can be redone.
C30_IndexInRange ==
  /\ currentIndex >= 0 /\ currentIndex < Len(versions)
  /\ lastCall = "addVersion" =>
       /\ currentIndex = Len(versions) - 1
       /\ versions[Len(versions)] = made
       /\ ~canRedo
====
